---- MODULE Spec2Model ----
(***************************************************************************)
(* State-machine model of the adaptive failure-learning engine             *)
(* (ai_testing/adaptive/adaptive_testing_engine.py) and of the insight     *)
(* ranking of the analytics dashboard                                      *)
(* (ai_testing/analytics/advanced_dashboard.py).                           *)
(*                                                                         *)
(* Python strings are TLA+ strings; Len, SubSeq and \o act on them as on   *)
(* sequences of characters.  Optional[str] is modelled as a sequence of    *)
(* length 0 (None) or 1 (the string).  Floats that arise as quotients of   *)
(* integers are kept as exact fractions [num, den].                        *)
(***************************************************************************)
EXTENDS Integers, Sequences, FiniteSets, TLC

(***************************************************************************)
(* Text primitives: str.lower(), the `in` operator, str.replace()          *)
(***************************************************************************)
UpperAlpha == "ABCDEFGHIJKLMNOPQRSTUVWXYZ"

LowerAlpha == "abcdefghijklmnopqrstuvwxyz"

Digits == "0123456789"

CharAt(s, i) == SubSeq(s, i, i)

InChars(c, chars) == \E i \in 1..Len(chars) : CharAt(chars, i) = c

LowerChar(c) ==
    CASE c = "A" -> "a"
      [] c = "B" -> "b"
      [] c = "C" -> "c"
      [] c = "D" -> "d"
      [] c = "E" -> "e"
      [] c = "F" -> "f"
      [] c = "G" -> "g"
      [] c = "H" -> "h"
      [] c = "I" -> "i"
      [] c = "J" -> "j"
      [] c = "K" -> "k"
      [] c = "L" -> "l"
      [] c = "M" -> "m"
      [] c = "N" -> "n"
      [] c = "O" -> "o"
      [] c = "P" -> "p"
      [] c = "Q" -> "q"
      [] c = "R" -> "r"
      [] c = "S" -> "s"
      [] c = "T" -> "t"
      [] c = "U" -> "u"
      [] c = "V" -> "v"
      [] c = "W" -> "w"
      [] c = "X" -> "x"
      [] c = "Y" -> "y"
      [] c = "Z" -> "z"
      [] OTHER -> c

\* str.lower(), character by character (the text is split in halves to keep
\* the evaluation shallow)
RECURSIVE Lower(_)
Lower(s) ==
    IF Len(s) = 0 THEN ""
    ELSE IF Len(s) = 1 THEN LowerChar(s)
    ELSE Lower(SubSeq(s, 1, Len(s) \div 2)) \o Lower(SubSeq(s, Len(s) \div 2 + 1, Len(s)))

StartsAt(s, sub, i) ==
    /\ i >= 1
    /\ i + Len(sub) - 1 <= Len(s)
    /\ SubSeq(s, i, i + Len(sub) - 1) = sub

Contains(s, sub) == \E i \in 1..(Len(s) - Len(sub) + 1) : StartsAt(s, sub, i)

\* Position of the first occurrence of sub in s at or after position i, 0 if none
FindFrom(s, sub, i) ==
    LET hits == {j \in i..(Len(s) - Len(sub) + 1) : StartsAt(s, sub, j)}
    IN IF hits = {} THEN 0 ELSE CHOOSE j \in hits : \A k \in hits : j <= k

\* str.replace(old, new): every non-overlapping occurrence, scanning left to right.
RECURSIVE ReplaceFrom(_, _, _, _)
ReplaceFrom(s, old, new, i) ==
    LET j == FindFrom(s, old, i) IN
    IF j = 0 THEN SubSeq(s, i, Len(s))
    ELSE SubSeq(s, i, j - 1) \o new \o ReplaceFrom(s, old, new, j + Len(old))

Replace(s, old, new) == ReplaceFrom(s, old, new, 1)

\* str.count(sub): number of non-overlapping occurrences.
RECURSIVE CountFrom(_, _, _)
CountFrom(s, sub, i) ==
    LET j == FindFrom(s, sub, i) IN
    IF j = 0 THEN 0 ELSE 1 + CountFrom(s, sub, j + Len(sub))

Count(s, sub) == CountFrom(s, sub, 1)

(***************************************************************************)
(* Optional values and dict.get                                            *)
(***************************************************************************)
None == <<>>

Some(v) == <<v>>

Get(d, k, default) == IF k \in DOMAIN d THEN d[k] ELSE default

(***************************************************************************)
(* _classify_failure: ordered keyword table, first match wins              *)
(***************************************************************************)
\* A test that asks for all the words
AllWordsIn(words, text) == \A w \in words : Contains(text, w)

\* any(word in text for word in words)
AnyWordIn(words, text) == \E w \in words : Contains(text, w)

_classify_failure(error_message) ==
    LET error_lower == Lower(error_message) IN
    IF AnyWordIn({"timeout", "wait", "element not found"}, error_lower)
    THEN "timing_issue"
    ELSE IF AnyWordIn({"selector", "locator", "element"}, error_lower)
    THEN "element_selector"
    ELSE IF AnyWordIn({"network", "connection", "request"}, error_lower)
    THEN "network_issue"
    ELSE IF AnyWordIn({"assertion", "expected", "actual"}, error_lower)
    THEN "assertion_failure"
    ELSE IF AnyWordIn({"permission", "access", "forbidden"}, error_lower)
    THEN "permission_issue"
    ELSE IF AnyWordIn({"data", "invalid", "null"}, error_lower)
    THEN "data_issue"
    ELSE "unknown"

(***************************************************************************)
(* _extract_element_selector: four regular expressions tried in order,     *)
(* each searched leftmost with re.IGNORECASE                               *)
(***************************************************************************)
IsQuote(c) == c = "'" \/ c = "\""

IsSpace(c) == c = " " \/ c = "\t" \/ c = "\n" \/ c = "\r"

\* the character class [#\.\[\]@\w\-:]
IsSelectorChar(c) ==
    \/ InChars(c, "#.[]@-:_")
    \/ InChars(c, UpperAlpha)
    \/ InChars(c, LowerAlpha)
    \/ InChars(c, Digits)

\* End of the maximal run of characters after position i that satisfy neither
\* quote: the index of the last character of the run (i when the run is empty).
RECURSIVE RunEnd(_, _, _)
RunEnd(s, i, kind) ==
    IF i + 1 > Len(s) THEN i
    ELSE LET c == CharAt(s, i + 1)
             ok == CASE kind = "space" -> IsSpace(c)
                     [] kind = "notquote" -> ~IsQuote(c)
                     [] kind = "selector" -> IsSelectorChar(c)
         IN IF ok THEN RunEnd(s, i + 1, kind) ELSE i

\* ['"](<class>+)['"] with the opening quote at position q: the group, or None.
QuotedAt(s, q, kind) ==
    IF q > Len(s) \/ ~IsQuote(CharAt(s, q)) THEN None
    ELSE LET e == RunEnd(s, q, kind) IN
         IF e > q /\ e + 1 <= Len(s) /\ IsQuote(CharAt(s, e + 1))
         THEN Some(SubSeq(s, q + 1, e))
         ELSE None

\* <keyword>\s+['"]([^'"]+)['"] with the keyword at position i; lower is s in
\* lower case, where re.IGNORECASE looks for the keyword.
KeywordAt(s, lower, kw, i) ==
    IF ~StartsAt(lower, kw, i) THEN None
    ELSE LET w == RunEnd(s, i + Len(kw) - 1, "space") IN
         IF w > i + Len(kw) - 1 THEN QuotedAt(s, w + 1, "notquote") ELSE None

\* The group of pattern kw matched at position i, or None; the pattern
\* "quoted" is the last of the four, which has no keyword.
MatchAt(s, lower, kw, i) ==
    IF kw = "quoted" THEN QuotedAt(s, i, "selector") ELSE KeywordAt(s, lower, kw, i)

\* re.search: the match starting leftmost.
FirstMatch(s, lower, kw) ==
    LET hits == {i \in 1..Len(s) : MatchAt(s, lower, kw, i) # None} IN
    IF hits = {} THEN None
    ELSE MatchAt(s, lower, kw, CHOOSE i \in hits : \A j \in hits : i <= j)

_extract_element_selector(error_message) ==
    LET lower == Lower(error_message)
        m1 == FirstMatch(error_message, lower, "locator")
        m2 == FirstMatch(error_message, lower, "element")
        m3 == FirstMatch(error_message, lower, "selector")
        m4 == FirstMatch(error_message, lower, "quoted")
    IN IF m1 # None THEN m1
       ELSE IF m2 # None THEN m2
       ELSE IF m3 # None THEN m3
       ELSE m4

(***************************************************************************)
(* Exact fractions for the float quotients of the code.  The quotients the *)
(* model forms have numerators and denominators far below 2^53, where      *)
(* IEEE division is monotone and n/d >= 0.7 agrees with 10n >= 7d.         *)
(***************************************************************************)
Frac(n, d) == [num |-> n, den |-> d]

FracLeq(a, b) == a.num * b.den <= b.num * a.den

FracEq(a, b) == a.num * b.den = b.num * a.den

One == Frac(1, 1)

\* min(x, 1.0)
MinOne(x) == IF x.num >= x.den THEN One ELSE x

(***************************************************************************)
(* Configuration (AdaptiveTestingEngine.__init__)                          *)
(***************************************************************************)
min_pattern_frequency == 3

\* confidence_threshold = 0.7
confidence_threshold == Frac(7, 10)

(***************************************************************************)
(* Bounds of the model                                                     *)
(***************************************************************************)
\* record_test_failure calls made on one engine instance
MaxRecords == 3

\* largest value of the wall clock (seconds)
MaxClock == 1

\* length of the rule list beyond which no further synthesis is started
MaxRules == 2

\* largest frequency of a pattern in the kind-groups whose confidence is studied
MaxFrequency == 11

\* largest number of patterns in those kind-groups
MaxGroup == 2

\* record_test_run calls made on one dashboard instance
MaxRuns == 2

(***************************************************************************)
(* Sequences helpers                                                       *)
(***************************************************************************)
Range(q) == {q[i] : i \in DOMAIN q}

RECURSIVE SortedSeq(_)
SortedSeq(S) ==
    IF S = {} THEN <<>>
    ELSE LET m == CHOOSE a \in S : \A b \in S : a <= b
         IN <<m>> \o SortedSeq(S \ {m})

RECURSIVE SumFrequency(_, _)
SumFrequency(patterns, members) ==
    IF members = <<>> THEN 0
    ELSE patterns[Head(members)].frequency + SumFrequency(patterns, Tail(members))

Perms(S) == {q \in [1..Cardinality(S) -> S] : \A a \in S : \E i \in DOMAIN q : q[i] = a}

RECURSIVE Join(_, _)
Join(q, sep) ==
    IF Len(q) = 0 THEN ""
    ELSE IF Len(q) = 1 THEN q[1]
    ELSE q[1] \o sep \o Join(Tail(q), sep)

(***************************************************************************)
(* Inputs: the failure records handed to record_test_failure               *)
(***************************************************************************)
MsgSearchTimeout == "Timeout waiting for selector '#search-results'"

MsgSearchTimeout2 == "TIMEOUT 30000ms exceeded, selector '#search-results'"

MsgCartTimeout == "Timeout waiting for selector '#cart-count'"

MsgNotFound == "Element not found: '.add-to-cart-btn'"

MsgLocator == "Locator \"#buy\" is not visible"

MsgAssertion == "AssertionError: expected 3 items"

MsgNetwork == "Connection refused"

Result(name, status, msg, browser) ==
    [test_name |-> name, status |-> status, error_message |-> msg,
     browser |-> browser, duration |-> 30000]

RSearch == Result("test_product_search", "failed", MsgSearchTimeout, "chromium")

RSearch2 == Result("test_product_search", "failed", MsgSearchTimeout2, "firefox")

RCart == Result("test_product_search", "failed", MsgCartTimeout, "chromium")

\* a timing failure of the same test whose message names no element
RNoLocator ==
    Result("test_product_search", "failed", "Timeout: the page did not load", "chromium")

\* a record that is no failure although it carries the message of one
RErrored == Result("test_product_search", "error", MsgSearchTimeout, "chromium")

RPassed == Result("test_product_search", "passed", "", "chromium")

RNotFound == Result("test_add_to_cart", "failed", MsgNotFound, "firefox")

RLocator == Result("test_add_to_cart", "failed", MsgLocator, "chromium")

RAssertion == Result("test_checkout", "failed", MsgAssertion, "chromium")

\* a record without test_name, browser and duration
RNetwork == [status |-> "failed", error_message |-> MsgNetwork]

\* the records handed to record_test_failure in a session
TestResults ==
    {RSearch, RSearch2, RCart, RNoLocator, RPassed, RErrored, RLocator, RAssertion}

\* the records earlier sessions recorded
EarlierResults == {RSearch, RCart, RNotFound, RLocator, RAssertion, RNetwork}

(***************************************************************************)
(* _extract_failure_pattern                                                *)
(***************************************************************************)
\* A test that takes every record but a passed one for a failure
OnlyPassedIsNoFailure(test_result) == Get(test_result, "status", None) = "passed"

\* test_result.get("status") != "failed"
NotFailed(test_result) == Get(test_result, "status", None) # "failed"

_extract_failure_pattern(test_result, now) ==
    IF NotFailed(test_result) THEN None
    ELSE LET error_message == Get(test_result, "error_message", "")
             test_name == Get(test_result, "test_name", "")
         IN Some([test_name |-> test_name,
                  failure_type |-> _classify_failure(error_message),
                  error_message |-> error_message,
                  element_selector |-> _extract_element_selector(error_message),
                  timestamp |-> now,
                  frequency |-> 1,
                  context |-> [browser |-> Get(test_result, "browser", "unknown"),
                               viewport |-> Get(test_result, "viewport", <<>>),
                               duration |-> Get(test_result, "duration", 0),
                               url |-> Get(test_result, "url", ""),
                               screenshot |-> Get(test_result, "screenshot", "")]])

\* _extract_failure_pattern of every input, computed once (the timestamp aside)
ExtractedPatterns ==
    [test_result \in TestResults \cup EarlierResults |-> _extract_failure_pattern(test_result, 0)]

ExtractedAt(test_result, now) ==
    IF ExtractedPatterns[test_result] = None THEN None
    ELSE Some([ExtractedPatterns[test_result][1] EXCEPT !.timestamp = now])

(***************************************************************************)
(* _find_existing_pattern: index of the first pattern with the same        *)
(* (test_name, failure_type, element_selector), 0 when there is none       *)
(***************************************************************************)
\* A comparison that leaves the element out
SameTestAndKind(existing, new_pattern) ==
    /\ existing.test_name = new_pattern.test_name
    /\ existing.failure_type = new_pattern.failure_type

SameIdentity(existing, new_pattern) ==
    /\ existing.test_name = new_pattern.test_name
    /\ existing.failure_type = new_pattern.failure_type
    /\ existing.element_selector = new_pattern.element_selector

_find_existing_pattern(patterns, new_pattern) ==
    LET hits == {i \in DOMAIN patterns : SameIdentity(patterns[i], new_pattern)}
    IN IF hits = {} THEN 0 ELSE CHOOSE i \in hits : \A j \in hits : i <= j

(***************************************************************************)
(* The persisted stores an engine may find in its data directory when it   *)
(* is constructed (_load_adaptive_data): stores written by earlier         *)
(* sessions, i.e. lists of extracted patterns with their frequencies.      *)
(***************************************************************************)
Stored(test_result, frequency) ==
    [ExtractedPatterns[test_result][1] EXCEPT !.frequency = frequency]

LoadedStores ==
    { <<>>,
      <<Stored(RSearch, 7), Stored(RLocator, 9)>>,
      <<Stored(RAssertion, 12), Stored(RNetwork, 8), Stored(RSearch, 2)>>,
      <<Stored(RSearch, 10), Stored(RCart, 3), Stored(RNotFound, 1)>> }

(***************************************************************************)
(* Rule synthesis                                                          *)
(***************************************************************************)
\* Python truth value of an Optional[str]
Truthy(opt) == opt # None /\ opt[1] # ""

RECURSIVE SelectorsOf(_)
\* [p.element_selector for p in patterns if p.element_selector]
SelectorsOf(patterns) ==
    IF patterns = <<>> THEN <<>>
    ELSE (IF Truthy(Head(patterns).element_selector)
          THEN <<Head(patterns).element_selector[1]>> ELSE <<>>)
         \o SelectorsOf(Tail(patterns))

Occurrences(q, v) == Cardinality({i \in DOMAIN q : q[i] = v})

\* Counter(q).most_common(1)[0][0]: highest count, first inserted among equals
MostCommon(q) ==
    LET best == {i \in DOMAIN q :
                    /\ \A j \in DOMAIN q : Occurrences(q, q[j]) <= Occurrences(q, q[i])
                    /\ \A j \in 1..(i - 1) : q[j] # q[i]}
    IN q[CHOOSE i \in best : \A j \in best : i <= j]

_create_timing_fix_suggestion(patterns) ==
    LET common_selectors == SelectorsOf(patterns) IN
    IF common_selectors # <<>>
    THEN "Add explicit wait for element '" \o MostCommon(common_selectors)
         \o "' with increased timeout (30s+)"
    ELSE "Add explicit waits and increase default timeout values"

\* set(selectors[:3]): the set the join iterates over
ProblemSelectors(patterns) ==
    LET selectors == SelectorsOf(patterns)
    IN Range(SubSeq(selectors, 1, IF Len(selectors) < 3 THEN Len(selectors) ELSE 3))

\* order: the iteration order of the set, which the hash seed of the process decides
_create_selector_fix_suggestion(patterns, order) ==
    IF SelectorsOf(patterns) # <<>>
    THEN "Update selectors to use more robust locators (data-testid, role-based). Problem selectors: "
         \o Join(order, ", ")
    ELSE "Review element selectors and use more stable locator strategies"

\* A confidence taken from the total frequency of the group, not from its
\* average: what the formula must be told apart from
GroupConfidenceTotal(patterns) ==
    LET total_frequency == SumFrequency(patterns, [i \in DOMAIN patterns |-> i])
    IN MinOne(Frac(total_frequency, 10))

\* min(avg_frequency / 10, 1.0) with avg_frequency = total_frequency / len(patterns)
GroupConfidence(patterns) ==
    LET total_frequency == SumFrequency(patterns, [i \in DOMAIN patterns |-> i])
    IN MinOne(Frac(total_frequency, Len(patterns) * 10))

RuleId(failure_type, now) == failure_type \o "_" \o ToString(now)

\* A rule that counts as applied and successful from its creation
NewRuleApplied(rule_id, failure_type, suggested_fix, confidence, now) ==
    [rule_id |-> rule_id,
     pattern |-> failure_type,
     suggested_fix |-> suggested_fix,
     confidence |-> confidence,
     success_rate |-> 1,
     created_at |-> now,
     last_applied |-> Some(now)]

\* the AdaptiveRule built at the end of _create_rule_for_pattern_group
NewRule(rule_id, failure_type, suggested_fix, confidence, now) ==
    [rule_id |-> rule_id,
     pattern |-> failure_type,
     suggested_fix |-> suggested_fix,
     confidence |-> confidence,
     success_rate |-> 0,
     created_at |-> now,
     last_applied |-> None]

\* the kinds whose suggestion needs no collaborator
LocalFix(failure_type, patterns, order) ==
    IF failure_type = "timing_issue" THEN _create_timing_fix_suggestion(patterns)
    ELSE IF failure_type = "element_selector"
         THEN _create_selector_fix_suggestion(patterns, order)
    ELSE IF failure_type = "network_issue"
         THEN "Add network retry logic and longer timeouts for network requests"
    ELSE "Generic fix for " \o failure_type \o ": Review test logic and add error handling"

_create_rule_for_pattern_group(failure_type, patterns, order, now) ==
    NewRule(RuleId(failure_type, now), failure_type,
            LocalFix(failure_type, patterns, order), GroupConfidence(patterns), now)

\* A threshold test that lets every rule through
QualifiesAlways(rule) == TRUE

\* rule.confidence >= self.confidence_threshold
Qualifies(rule) == FracLeq(confidence_threshold, rule.confidence)

\* Groups that take in every pattern, whatever its frequency
PatternGroupsOfAll(patterns) ==
    LET q == DOMAIN patterns
        firsts == {i \in q : \A j \in q : j < i =>
                       patterns[j].failure_type # patterns[i].failure_type}
        order == SortedSeq(firsts)
    IN [k \in DOMAIN order |->
          [failure_type |-> patterns[order[k]].failure_type,
           members |-> SortedSeq({i \in q : patterns[i].failure_type
                                              = patterns[order[k]].failure_type})]]

\* pattern_groups: one entry per failure kind, in the order in which the kinds
\* first occur among the patterns of frequency >= min_pattern_frequency; the
\* members are references to the stored patterns (indices into the store).
PatternGroups(patterns) ==
    LET q == {i \in DOMAIN patterns : patterns[i].frequency >= min_pattern_frequency}
        firsts == {i \in q : \A j \in q : j < i =>
                       patterns[j].failure_type # patterns[i].failure_type}
        order == SortedSeq(firsts)
    IN [k \in DOMAIN order |->
          [failure_type |-> patterns[order[k]].failure_type,
           members |-> SortedSeq({i \in q : patterns[i].failure_type
                                              = patterns[order[k]].failure_type})]]

Members(patterns, group) == [k \in DOMAIN group.members |-> patterns[group.members[k]]]

\* One pass of the loop body of analyze_patterns_and_create_rules: the rule
\* _create_rule_for_pattern_group returned, with the total frequency and the size
\* of the group it was computed from.
Created(failure_type, patterns, rule) ==
    [failure_type |-> failure_type,
     total_frequency |-> SumFrequency(patterns, [i \in DOMAIN patterns |-> i]),
     size |-> Len(patterns),
     rule |-> rule]

\* The loop of analyze_patterns_and_create_rules from group i on, up to the end
\* or to the group whose suggestion awaits the collaborator; created logs the
\* passes of the loop body.
RECURSIVE CreateRulesFrom(_, _, _, _, _, _, _, _)
CreateRulesFrom(groups, i, patterns, rules, new_rules, created, order, now) ==
    IF i > Len(groups) \/ groups[i].failure_type = "assertion_failure"
    THEN [i |-> i, rules |-> rules, new_rules |-> new_rules, created |-> created]
    ELSE LET members == Members(patterns, groups[i])
             rule == _create_rule_for_pattern_group(
                         groups[i].failure_type, members, order, now)
             log == Append(created, Created(groups[i].failure_type, members, rule))
         IN IF Qualifies(rule)
            THEN CreateRulesFrom(groups, i + 1, patterns, Append(rules, rule),
                                 Append(new_rules, rule), log, order, now)
            ELSE CreateRulesFrom(groups, i + 1, patterns, rules, new_rules, log,
                                 order, now)

\* The iteration orders set(selectors[:3]) can have for the element_selector group
SelectorOrders(patterns, groups) ==
    LET g == {k \in DOMAIN groups : groups[k].failure_type = "element_selector"}
    IN IF g = {} THEN {<<>>}
       ELSE Perms(ProblemSelectors(Members(patterns, groups[CHOOSE k \in g : TRUE])))

\* What the collaborator call of _create_assertion_fix_suggestion can end in
CollaboratorOutcomes ==
    { [ok |-> TRUE, result |-> [suggested_fix |-> "Compare totals after the cart refresh"]],
      [ok |-> TRUE, result |-> [analysis |-> "MCP client not connected"]],
      [ok |-> FALSE] }

\* A suggestion that is lost with the collaborator
SuggestionOrNothing(outcome) ==
    IF outcome.ok
    THEN Get(outcome.result, "suggested_fix", "Review assertion logic and expected values")
    ELSE ""

_create_assertion_fix_suggestion(outcome) ==
    IF outcome.ok
    THEN Get(outcome.result, "suggested_fix", "Review assertion logic and expected values")
    ELSE "Review assertion logic, expected values, and test data"

(***************************************************************************)
(* Rule application to text                                                *)
(***************************************************************************)
WaitInjection == "page.wait_for_selector(selector, timeout=30000)\n        page.click("

RetryImport == "import time\nfrom requests.adapters import HTTPAdapter\nfrom urllib3.util.retry import Retry\n"

\* retry_import.strip()
RetryImportStripped == SubSeq(RetryImport, 1, Len(RetryImport) - 1)

SelectorAdvice == "# ADAPTIVE SUGGESTION: Consider using data-testid selectors for better stability\n"

\* A transform that reports every rule as applied, whatever its kind
AppliedWhateverKind(content, rule) == [content |-> content, modified |-> TRUE]

_apply_rule_to_content(content, rule) ==
    IF rule.pattern = "timing_issue"
    THEN IF ~Contains(content, "page.wait_for_selector") /\ Contains(content, "click(")
         THEN [content |-> Replace(content, "page.click(", WaitInjection), modified |-> TRUE]
         ELSE [content |-> content, modified |-> FALSE]
    ELSE IF rule.pattern = "element_selector"
    THEN IF ~Contains(content, "data-testid") /\ Contains(content, "\"#")
         THEN [content |-> SelectorAdvice \o content, modified |-> TRUE]
         ELSE [content |-> content, modified |-> FALSE]
    ELSE IF rule.pattern = "network_issue"
    THEN IF /\ Contains(content, "requests.")
            /\ ~Contains(Lower(content), "retry")
            /\ ~Contains(content, RetryImportStripped)
         THEN [content |-> RetryImport \o "\n" \o content, modified |-> TRUE]
         ELSE [content |-> content, modified |-> FALSE]
    ELSE [content |-> content, modified |-> FALSE]

\* The loop of apply_adaptive_improvements over self.adaptive_rules from rule i on
RECURSIVE ApplyRulesFrom(_, _, _, _, _)
ApplyRulesFrom(rules, i, test_content, improvements_applied, now) ==
    IF i > Len(rules)
    THEN [rules |-> rules, test_content |-> test_content,
          improvements_applied |-> improvements_applied]
    ELSE LET rule == rules[i]
             r == _apply_rule_to_content(test_content, rule)
         IN IF FracLeq(confidence_threshold, rule.confidence) /\ r.modified
            THEN ApplyRulesFrom([rules EXCEPT ![i].last_applied = Some(now)], i + 1,
                                r.content,
                                Append(improvements_applied,
                                       [rule_id |-> rule.rule_id, pattern |-> rule.pattern,
                                        fix |-> rule.suggested_fix]),
                                now)
            ELSE ApplyRulesFrom(rules, i + 1, test_content, improvements_applied, now)

\* The test files apply_adaptive_improvements is pointed at
TestFiles ==
    { "page.click(\"#buy\")\n",
      "page.click(a)\nr = requests.get(url)\npage.click(b)\n",
      "button.click()\n",
      "page.wait_for_selector(\"#buy\")\npage.click(\"#buy\")\n" }

\* The rule lists an engine may find persisted when it is constructed
LoadedRules ==
    { <<>>,
      <<NewRule(RuleId("timing_issue", 0), "timing_issue",
                "Add explicit waits and increase default timeout values",
                Frac(8, 10), 0)>> }

(***************************************************************************)
(* State                                                                   *)
(***************************************************************************)
VARIABLES
    failure_patterns,   \* self.failure_patterns
    adaptive_rules,     \* self.adaptive_rules
    disk,               \* failure_patterns.pkl and adaptive_rules.pkl
    clock,              \* datetime.now(), in seconds
    file,               \* content of the test file at test_file_path
    backup,             \* content of its .py.backup sibling, None while absent
    pc,                 \* where the engine's running coroutine stands
    an,                 \* locals of the suspended analyze_patterns_and_create_rules
    ap,                 \* locals of the running apply_adaptive_improvements
    ret,                \* the call that returned last, with what it returned
    io_log,             \* reads and writes of the running or last apply call, in order
    io_failed,          \* whether a read or write of the test file or backup has failed
    file0,              \* content of the test file when the engine was constructed
    loaded,             \* the pattern store the engine loaded when constructed
    recorded,           \* how often each record was handed to record_test_failure
    cf_group,           \* a kind-group handed to _create_rule_for_pattern_group
    cf_rule,            \* the rule it returned, None before the call
    cl_message,         \* an error message handed to _classify_failure
    cl_kind,            \* the kind it returned, None before the call
    test_history,       \* dashboard: self.test_history
    performance_trends, \* dashboard: self.performance_trends
    ai_insights,        \* dashboard: self.ai_insights
    dash_disk,          \* test_history.json and ai_insights.json
    dash_pc,            \* where the dashboard's running coroutine stands
    dg,                 \* locals of the suspended generate_comprehensive_insights
    dash_ret,           \* the dashboard call that returned last, with what it returned
    history0            \* the history the dashboard loaded when constructed

\* the engine and its files
engine == <<failure_patterns, adaptive_rules, disk, clock, file, backup, pc, an, ap,
            ret, io_log, io_failed, file0, loaded, recorded>>

\* the inputs and results of the functions studied on their own
pure == <<cf_group, cf_rule, cl_message, cl_kind>>

\* the analytics dashboard and its files
dashboard == <<test_history, performance_trends, ai_insights, dash_disk, dash_pc, dg,
               dash_ret, history0>>

vars == <<engine, pure, dashboard>>

NoLocals == [op |-> "none"]

BackupPath == "test_file.py.backup"

InitEngine ==
    /\ failure_patterns \in LoadedStores
    /\ adaptive_rules \in LoadedRules
    /\ disk = [patterns |-> failure_patterns, rules |-> adaptive_rules]
    /\ clock = 0
    /\ file \in TestFiles
    /\ backup = None
    /\ pc = "idle"
    /\ an = NoLocals
    /\ ap = NoLocals
    /\ ret = [op |-> "none"]
    /\ io_log = <<>>
    /\ io_failed = FALSE
    /\ file0 = file
    /\ loaded = failure_patterns
    /\ recorded = [test_result \in TestResults |-> 0]

InitPure ==
    /\ cf_group = <<>>
    /\ cf_rule = None
    /\ cl_message = ""
    /\ cl_kind = None

RECURSIVE SumOver(_, _)
SumOver(f, S) ==
    IF S = {} THEN 0
    ELSE LET a == CHOOSE b \in S : TRUE IN f[a] + SumOver(f, S \ {a})

\* record_test_failure calls made so far
RecordCalls == SumOver(recorded, TestResults)

\* _save_adaptive_data: both pickles are rewritten; a failure is logged and swallowed
_save_adaptive_data(patterns, rules, save_ok) ==
    disk' = IF save_ok THEN [patterns |-> patterns, rules |-> rules] ELSE disk

(***************************************************************************)
(* The wall clock advances                                                 *)
(***************************************************************************)
Tick ==
    /\ clock < MaxClock
    /\ clock' = clock + 1
    /\ UNCHANGED <<failure_patterns, adaptive_rules, disk, file, backup, pc, an, ap,
                   ret, io_log, io_failed, file0, loaded, recorded, pure, dashboard>>

(***************************************************************************)
(* AdaptiveTestingEngine(data_dir): the process ends and a new engine is   *)
(* constructed over the same data directory.  pickle.load gives back the   *)
(* lists pickle.dump was handed, element by element and field by field.    *)
(***************************************************************************)
\* What reading the two pickles can end in
LoadOutcomes == {"ok", "patterns_failed", "rules_failed"}

\* An engine that starts from empty lists whatever the directory holds
LoadedAfresh(files, outcome) == [patterns |-> <<>>, rules |-> <<>>]

\* the lists of the new engine: both start empty, the patterns are read first,
\* and an exception leaves the try block with what has been read so far
_load_adaptive_data(files, outcome) ==
    [patterns |-> IF outcome = "patterns_failed" THEN <<>> ELSE files.patterns,
     rules |-> IF outcome = "ok" THEN files.rules ELSE <<>>]

\* recorded goes on counting the records handed to the engines of the directory
AdaptiveTestingEngine(outcome) ==
    /\ pc = "idle"
    /\ LET data == _load_adaptive_data(disk, outcome) IN
       /\ failure_patterns' = data.patterns
       /\ adaptive_rules' = data.rules
       /\ loaded' = data.patterns
    /\ ret' = [op |-> "init"]
    /\ UNCHANGED <<disk, clock, file, backup, pc, an, ap, io_log, io_failed, file0,
                   recorded, pure, dashboard>>

(***************************************************************************)
(* record_test_failure(test_result).  It is synchronous, so it runs while  *)
(* the engine is idle or while analyze is suspended in its collaborator    *)
(* call.                                                                   *)
(***************************************************************************)
\* A store that appends every occurrence without looking for its identity
RecordedAppending(patterns, new_pattern, now) == Append(patterns, new_pattern)

\* A store that merges a repeat without counting it
RecordedOnce(patterns, new_pattern, now) ==
    LET existing == _find_existing_pattern(patterns, new_pattern) IN
    IF existing # 0
    THEN [patterns EXCEPT ![existing].timestamp = now]
    ELSE Append(patterns, new_pattern)

\* A store that puts the new occurrence in the place of the pattern it repeats
RecordedAfresh(patterns, new_pattern, now) ==
    LET existing == _find_existing_pattern(patterns, new_pattern) IN
    IF existing # 0
    THEN [patterns EXCEPT ![existing] = new_pattern]
    ELSE Append(patterns, new_pattern)

\* The store after the occurrence new_pattern
Recorded(patterns, new_pattern, now) ==
    LET existing == _find_existing_pattern(patterns, new_pattern) IN
    IF existing # 0
    THEN [patterns EXCEPT ![existing].frequency = @ + 1, ![existing].timestamp = now]
    ELSE Append(patterns, new_pattern)

\* A call that gives the occurrence up when the save fails
StoreKeptUnlessSaved(patterns, new_pattern, now, save_ok) ==
    IF save_ok THEN Recorded(patterns, new_pattern, now) ELSE patterns

\* The store when the call returns: it is changed before _save_adaptive_data is
\* called, and a failure of the save is logged there and goes no further
StoreAfterCall(patterns, new_pattern, now, save_ok) ==
    Recorded(patterns, new_pattern, now)

record_test_failure(test_result, save_ok) ==
    /\ pc \in {"idle", "await_collab"}
    /\ RecordCalls < MaxRecords
    /\ recorded' = [recorded EXCEPT ![test_result] = @ + 1]
    /\ LET failure_pattern == ExtractedAt(test_result, clock) IN
       IF failure_pattern # None
       THEN /\ failure_patterns' =
                   StoreAfterCall(failure_patterns, failure_pattern[1], clock, save_ok)
            /\ _save_adaptive_data(failure_patterns', adaptive_rules, save_ok)
       ELSE UNCHANGED <<failure_patterns, disk>>
    /\ ret' = [op |-> "record",
               save_failed |-> ExtractedAt(test_result, clock) # None /\ ~save_ok]
    /\ UNCHANGED <<adaptive_rules, clock, file, backup, pc, an, ap, io_log, io_failed,
                   file0, loaded, pure, dashboard>>

(***************************************************************************)
(* analyze_patterns_and_create_rules, up to its return or to the await of  *)
(* the collaborator in the assertion_failure group                         *)
(***************************************************************************)
\* before and store are the rule list and the pattern store the call found
AnalyzeReturn(r, before, store, pattern_groups, outcome, save_ok) ==
    /\ adaptive_rules' = r.rules
    /\ _save_adaptive_data(failure_patterns, r.rules, save_ok)
    /\ ret' = [op |-> "analyze", new_rules |-> r.new_rules, before |-> before,
               store |-> store, created |-> r.created,
               pattern_groups |-> pattern_groups, outcome |-> outcome]
    /\ pc' = "idle"
    /\ an' = NoLocals

analyze_patterns_and_create_rules(save_ok) ==
    /\ pc \in {"idle", "phase_recorded"}
    /\ Len(adaptive_rules) < MaxRules
    /\ LET pattern_groups == PatternGroups(failure_patterns) IN
       \E order \in SelectorOrders(failure_patterns, pattern_groups) :
          LET r == CreateRulesFrom(pattern_groups, 1, failure_patterns, adaptive_rules,
                                   <<>>, <<>>, order, clock)
          IN IF r.i > Len(pattern_groups)
             THEN AnalyzeReturn(r, adaptive_rules, failure_patterns, pattern_groups,
                                None, save_ok)
             ELSE LET members == Members(failure_patterns, pattern_groups[r.i]) IN
                  /\ adaptive_rules' = r.rules
                  /\ an' = [op |-> "analyze",
                            pattern_groups |-> pattern_groups,
                            i |-> r.i,
                            new_rules |-> r.new_rules,
                            created |-> r.created,
                            order |-> order,
                            members |-> members,
                            confidence |-> GroupConfidence(members),
                            rule_id |-> RuleId("assertion_failure", clock),
                            before |-> adaptive_rules,
                            store |-> failure_patterns]
                  /\ pc' = "await_collab"
                  /\ UNCHANGED <<disk, ret>>
    /\ UNCHANGED <<failure_patterns, clock, file, backup, ap, io_log, io_failed,
                   file0, loaded, recorded, pure, dashboard>>

(***************************************************************************)
(* The collaborator call ends and analyze runs on to its return            *)
(***************************************************************************)
\* The loop of the suspended call from the assertion_failure group on, given
\* what the collaborator call ended in
Resumed(outcome) ==
    LET rule == NewRule(an.rule_id, "assertion_failure",
                        _create_assertion_fix_suggestion(outcome), an.confidence, clock)
        kept == Qualifies(rule)
    IN CreateRulesFrom(an.pattern_groups, an.i + 1, failure_patterns,
           IF kept THEN Append(adaptive_rules, rule) ELSE adaptive_rules,
           IF kept THEN Append(an.new_rules, rule) ELSE an.new_rules,
           Append(an.created, Created("assertion_failure", an.members, rule)),
           an.order, clock)

analyze_resume(outcome, save_ok) ==
    /\ pc = "await_collab"
    /\ AnalyzeReturn(Resumed(outcome), an.before, an.store, an.pattern_groups,
                     Some(outcome), save_ok)
    /\ UNCHANGED <<failure_patterns, clock, file, backup, ap, io_log, io_failed,
                   file0, loaded, recorded, pure, dashboard>>

(***************************************************************************)
(* apply_adaptive_improvements(test_file_path): read and the rule loop     *)
(***************************************************************************)
ApplyReturn(improvements_applied) ==
    /\ ret' = [op |-> "apply",
               improvements_applied |-> improvements_applied,
               backup_created |-> IF improvements_applied # <<>>
                                  THEN Some(BackupPath) ELSE None]
    /\ pc' = "idle"
    /\ ap' = NoLocals

IoEvent(op, path, outcome, content) ==
    [op |-> op, path |-> path, outcome |-> outcome, content |-> content]

apply_adaptive_improvements(read_ok) ==
    /\ pc = "idle"
    /\ IF ~read_ok
       THEN /\ ApplyReturn(<<>>)
            /\ io_log' = <<IoEvent("read", "file", "failed", "")>>
            /\ io_failed' = TRUE
            /\ UNCHANGED adaptive_rules
       ELSE LET r == ApplyRulesFrom(adaptive_rules, 1, file, <<>>, clock) IN
            /\ adaptive_rules' = r.rules
            /\ io_log' = <<IoEvent("read", "file", "ok", file)>>
            /\ UNCHANGED io_failed
            /\ IF r.improvements_applied # <<>>
               THEN /\ pc' = "apply_backup"
                    /\ ap' = [op |-> "apply",
                              original_content |-> file,
                              test_content |-> r.test_content,
                              improvements_applied |-> r.improvements_applied]
                    /\ UNCHANGED ret
               ELSE ApplyReturn(<<>>)
    /\ UNCHANGED <<failure_patterns, disk, clock, file, backup, an, file0, loaded,
                   recorded, pure, dashboard>>

\* What opening a file for writing and writing it can end in
WriteOutcomes == {"ok", "open_failed", "write_failed"}

\* The file after open(path, 'w') and f.write(content): open truncates it
Written(old, content, outcome) ==
    IF outcome = "ok" THEN content
    ELSE IF outcome = "write_failed" THEN ""
    ELSE old

\* A call that goes on to the file whatever became of the backup
AfterBackupRegardless(outcome) == "apply_write"

\* Where apply_adaptive_improvements goes on after the backup's with-block: an
\* exception leaves the try block for the return statement
AfterBackup(outcome) == IF outcome = "ok" THEN "apply_write" ELSE "idle"

(***************************************************************************)
(* apply_adaptive_improvements: the backup is written                      *)
(***************************************************************************)
apply_write_backup(outcome) ==
    /\ pc = "apply_backup"
    /\ backup' = IF outcome = "open_failed" THEN backup
                 ELSE Some(Written("", ap.original_content, outcome))
    /\ io_log' = Append(io_log, IoEvent("write", "backup", outcome,
                                        Written("", ap.original_content, outcome)))
    /\ io_failed' = (io_failed \/ outcome # "ok")
    /\ IF AfterBackup(outcome) = "apply_write"
       THEN /\ pc' = "apply_write"
            /\ UNCHANGED <<ap, ret>>
       ELSE ApplyReturn(ap.improvements_applied)
    /\ UNCHANGED <<failure_patterns, adaptive_rules, disk, clock, file, an, file0,
                   loaded, recorded, pure, dashboard>>

(***************************************************************************)
(* apply_adaptive_improvements: the improved version is written            *)
(***************************************************************************)
apply_write_file(outcome) ==
    /\ pc = "apply_write"
    /\ file' = Written(file, ap.test_content, outcome)
    /\ io_log' = Append(io_log, IoEvent("write", "file", outcome,
                                        Written("", ap.test_content, outcome)))
    /\ io_failed' = (io_failed \/ outcome # "ok")
    /\ ApplyReturn(ap.improvements_applied)
    /\ UNCHANGED <<failure_patterns, adaptive_rules, disk, clock, backup, an, file0,
                   loaded, recorded, pure, dashboard>>

(***************************************************************************)
(* Analytics dashboard: arithmetic of the float quotients, kept exact      *)
(***************************************************************************)
Abs(n) == IF n < 0 THEN -n ELSE n

Max(a, b) == IF a >= b THEN a ELSE b

Min(a, b) == IF a <= b THEN a ELSE b

RECURSIVE GCD(_, _)
GCD(a, b) == IF b = 0 THEN a ELSE GCD(b, a % b)

\* the fraction n/d in lowest terms with a positive denominator
Reduced(n, d) ==
    LET g == GCD(Abs(n), Abs(d))
        s == IF d < 0 THEN -1 ELSE 1
    IN Frac((s * n) \div g, (s * d) \div g)

FracAdd(a, b) == Reduced(a.num * b.den + b.num * a.den, a.den * b.den)

FracSub(a, b) == Reduced(a.num * b.den - b.num * a.den, a.den * b.den)

FracMul(a, b) == Reduced(a.num * b.num, a.den * b.den)

FracDiv(a, b) == Reduced(a.num * b.den, a.den * b.num)

FracLess(a, b) == a.num * b.den < b.num * a.den

Neg(a) == Frac(-a.num, a.den)

Whole(n) == Frac(n, 1)

RECURSIVE FracSum(_)
FracSum(q) == IF q = <<>> THEN Whole(0) ELSE FracAdd(Head(q), FracSum(Tail(q)))

RECURSIVE IntSum(_)
IntSum(q) == IF q = <<>> THEN 0 ELSE Head(q) + IntSum(Tail(q))

\* statistics.mean
Mean(q) == FracDiv(FracSum(q), Whole(Len(q)))

\* q[-n:]
LastN(q, n) == IF Len(q) <= n THEN q ELSE SubSeq(q, Len(q) - n + 1, Len(q))

\* q[:n]
FirstN(q, n) == IF Len(q) <= n THEN q ELSE SubSeq(q, 1, n)

\* the distinct values of q in the order of their first occurrence: the key
\* order of a dict filled while iterating over q
FirstOccurrences(q) ==
    LET firsts == {i \in DOMAIN q : \A j \in 1..(i - 1) : q[j] # q[i]}
        order == SortedSeq(firsts)
    IN [k \in DOMAIN order |-> q[order[k]]]

\* list.sort(key=..., reverse=True): greater[i][j] says that the key of q[i] is
\* greater than the key of q[j]; elements of equal key keep their order
SortedReverse(q, greater) ==
    LET Before(i, j) == \/ greater[i][j]
                        \/ (~greater[j][i] /\ i < j)
        position(i) == 1 + Cardinality({j \in DOMAIN q : j # i /\ Before(j, i)})
    IN [k \in DOMAIN q |-> q[CHOOSE i \in DOMAIN q : position(i) = k]]

\* A trend that sees no slope in any values
TrendIgnored(values) == Whole(0)

(***************************************************************************)
(* _calculate_trend: slope of the least-squares line through               *)
(* (0, values[0]), (1, values[1]), ...                                     *)
(***************************************************************************)
_calculate_trend(values) ==
    IF Len(values) < 2 THEN Whole(0)
    ELSE LET n == Len(values)
             x_sum == IntSum([i \in 1..n |-> i - 1])
             y_sum == FracSum(values)
             xy_sum == FracSum([i \in 1..n |-> FracMul(Whole(i - 1), values[i])])
             x_sq_sum == IntSum([i \in 1..n |-> (i - 1) * (i - 1)])
         IN FracDiv(FracSub(FracMul(Whole(n), xy_sum), FracMul(Whole(x_sum), y_sum)),
                    Whole(n * x_sq_sum - x_sum * x_sum))

(***************************************************************************)
(* Inputs: the run results handed to record_test_run                       *)
(***************************************************************************)
Detail(name, status, error) ==
    [name |-> name, status |-> status, duration |-> 15, error |-> error]

RunHealthy ==
    [run_id |-> "run_001", total |-> 20, passed |-> 19, failed |-> 1, skipped |-> 0,
     duration |-> 100,
     tests |-> <<Detail("test_login", "passed", ""),
                 Detail("test_product_search", "failed", "timeout waiting for selector")>>]

RunFailing ==
    [run_id |-> "run_002", total |-> 20, passed |-> 6, failed |-> 14, skipped |-> 0,
     duration |-> 800,
     tests |-> <<Detail("test_login", "failed", "AssertionError: expected 3 items"),
                 Detail("test_checkout", "failed", "element not found")>>]

\* a result without run_id, duration and per-test entries
RunBare == [total |-> 4, passed |-> 4]

TestRuns == {RunHealthy, RunFailing, RunBare}

\* a run of twelve tests: ten of the login pages, one of the cart and one that
\* belongs to no component
RunWide ==
    [run_id |-> "run_003", total |-> 12, passed |-> 12, failed |-> 0, skipped |-> 0,
     duration |-> 120,
     tests |-> [i \in 1..10 |-> Detail("test_Login_" \o ToString(i), "passed", "")]
               \o <<Detail("test_cart_total", "passed", ""),
                     Detail("test_homepage", "passed", "")>>]

(***************************************************************************)
(* record_test_run: the standardized record and the daily trend lists      *)
(***************************************************************************)
Standardized(test_results, now) ==
    [timestamp |-> now,
     run_id |-> Get(test_results, "run_id", "run_" \o ToString(now)),
     total_tests |-> Get(test_results, "total", 0),
     passed |-> Get(test_results, "passed", 0),
     failed |-> Get(test_results, "failed", 0),
     skipped |-> Get(test_results, "skipped", 0),
     duration |-> Get(test_results, "duration", 0),
     environment |-> Get(test_results, "environment", <<>>),
     test_details |-> Get(test_results, "tests", <<>>),
     browser |-> Get(test_results, "browser", "unknown"),
     platform |-> Get(test_results, "platform", "unknown")]

\* strftime("%Y-%m-%d") of a timestamp: the day the second falls in
DayKey(timestamp) == ToString(timestamp \div 86400)

\* defaultdict(list)[key].append(value)
Appended(trends, key, value) ==
    [k \in DOMAIN trends \cup {key} |->
        IF k = key THEN Append(Get(trends, key, <<>>), value) ELSE trends[k]]

_update_performance_trends(trends, test_result) ==
    LET day_key == DayKey(test_result.timestamp)
        tests == Max(test_result.total_tests, 1)
        t1 == Appended(trends, "pass_rate_" \o day_key,
                       FracMul(Frac(test_result.passed, tests), Whole(100)))
        t2 == Appended(t1, "avg_duration_" \o day_key, Frac(test_result.duration, tests))
    IN Appended(t2, "total_tests_" \o day_key, test_result.total_tests)

(***************************************************************************)
(* The sub-analyses of generate_comprehensive_insights.  An insight keeps  *)
(* category, title, severity, confidence and data points; its description  *)
(* and recommendations are texts rendered from the data points.            *)
(***************************************************************************)
Insight(category, title, severity, confidence, data_points) ==
    [category |-> category, title |-> title, severity |-> severity,
     confidence |-> confidence, data_points |-> data_points]

_analyze_pass_rate_trends(history) ==
    IF Len(history) < 3 THEN <<>>
    ELSE LET recent_runs == LastN(history, 10)
             pass_rates == [i \in DOMAIN recent_runs |->
                               Frac(recent_runs[i].passed,
                                    Max(recent_runs[i].total_tests, 1))]
             avg_pass_rate == FracMul(Mean(pass_rates), Whole(100))
             pass_rate_trend == _calculate_trend(pass_rates)
         IN IF FracLess(avg_pass_rate, Whole(70))
            THEN <<Insight("quality", "Low Pass Rate Detected",
                           IF FracLess(avg_pass_rate, Whole(50)) THEN "high" ELSE "medium",
                           Frac(9, 10),
                           [avg_pass_rate |-> avg_pass_rate, trend |-> pass_rate_trend])>>
            ELSE IF FracLess(pass_rate_trend, Frac(-1, 10))
            THEN <<Insight("quality", "Declining Pass Rate Trend", "medium", Frac(8, 10),
                           [trend |-> pass_rate_trend,
                            recent_pass_rates |-> LastN(pass_rates, 5)])>>
            ELSE <<>>

_analyze_performance_trends(history) ==
    IF Len(history) < 5 THEN <<>>
    ELSE LET recent_runs == LastN(history, 10)
             avg_durations == [i \in DOMAIN recent_runs |->
                                  Frac(recent_runs[i].duration,
                                       Max(recent_runs[i].total_tests, 1))]
             avg_duration == Mean(avg_durations)
             duration_trend == _calculate_trend(avg_durations)
         IN IF FracLess(Whole(30), avg_duration)
            THEN <<Insight("performance", "Slow Test Execution", "medium", Frac(8, 10),
                           [avg_duration |-> avg_duration, trend |-> duration_trend])>>
            ELSE IF FracLess(Frac(2, 10), duration_trend)
            THEN <<Insight("performance", "Increasing Test Duration", "medium", Frac(7, 10),
                           [trend |-> duration_trend,
                            recent_durations |-> LastN(avg_durations, 5)])>>
            ELSE <<>>

RECURSIVE DetailsOf(_)
\* the per-test entries of the runs, in order
DetailsOf(runs) ==
    IF runs = <<>> THEN <<>>
    ELSE Get(Head(runs), "test_details", <<>>) \o DetailsOf(Tail(runs))

\* A flakiness test that leaves the boundary out
FlakyEnoughStrict(flakiness_score) == FracLess(Frac(2, 10), flakiness_score)

\* flakiness_score >= 0.2
FlakyEnough(flakiness_score) == FracLeq(Frac(2, 10), flakiness_score)

_analyze_flaky_tests(history) ==
    LET details == DetailsOf(LastN(history, 20))
        names == FirstOccurrences([i \in DOMAIN details |->
                                      Get(details[i], "name", "unknown")])
        Outcomes(test_name) ==
            LET of == SortedSeq({i \in DOMAIN details :
                                    Get(details[i], "name", "unknown") = test_name})
            IN [k \in DOMAIN of |-> Get(details[of[k]], "status", "unknown")]
        flakiness_score(test_name) ==
            Frac(Min(Occurrences(Outcomes(test_name), "passed"),
                     Occurrences(Outcomes(test_name), "failed")),
                 Len(Outcomes(test_name)))
        IsFlaky(test_name) ==
            /\ Len(Outcomes(test_name)) >= 5
            /\ Occurrences(Outcomes(test_name), "passed") > 0
            /\ Occurrences(Outcomes(test_name), "failed") > 0
            /\ FlakyEnough(flakiness_score(test_name))
        flaky == SelectSeq(names, IsFlaky)
        flaky_tests == SortedReverse(flaky,
                           [i \in DOMAIN flaky |-> [j \in DOMAIN flaky |->
                               FracLess(flakiness_score(flaky[j]),
                                        flakiness_score(flaky[i]))]])
        top_flaky == FirstN(flaky_tests, 5)
    IN IF flaky_tests # <<>>
       THEN <<Insight("reliability", "Flaky Tests Detected",
                      IF Len(flaky_tests) > 10 THEN "high" ELSE "medium",
                      Frac(9, 10),
                      [flaky_count |-> Len(flaky_tests),
                       top_flaky_tests |-> [k \in DOMAIN top_flaky |->
                                               [name |-> top_flaky[k],
                                                score |-> flakiness_score(top_flaky[k])]]])>>
       ELSE <<>>

\* the component a test is counted under, by its lower-cased name
Component(test_name) ==
    IF Contains(test_name, "login") \/ Contains(test_name, "auth") THEN "authentication"
    ELSE IF Contains(test_name, "product") \/ Contains(test_name, "catalog")
    THEN "product_catalog"
    ELSE IF Contains(test_name, "cart") THEN "shopping_cart"
    ELSE IF Contains(test_name, "checkout") \/ Contains(test_name, "payment") THEN "checkout"
    ELSE IF Contains(test_name, "order") THEN "order_management"
    ELSE "other"

_analyze_test_coverage(history) ==
    LET details == DetailsOf(LastN(history, 5))
        counted == [i \in DOMAIN details |-> Component(Lower(Get(details[i], "name", "")))]
        components == FirstOccurrences(counted)
        total_tests == Len(counted)
        IsLow(component) ==
            /\ FracLess(FracMul(Frac(Occurrences(counted, component), total_tests),
                                Whole(100)),
                        Whole(10))
            /\ component # "other"
        low_coverage_components == SelectSeq(components, IsLow)
    IN IF total_tests > 0 /\ low_coverage_components # <<>>
       THEN <<Insight("coverage", "Low Test Coverage Areas", "medium", Frac(8, 10),
                      [component_coverage |->
                           [k \in DOMAIN components |->
                               [component |-> components[k],
                                count |-> Occurrences(counted, components[k])]],
                       low_coverage_components |-> low_coverage_components])>>
       ELSE <<>>

\* the failure category of a lower-cased error text
FailureCategory(error_msg) ==
    IF Contains(error_msg, "timeout") THEN "timeout"
    ELSE IF Contains(error_msg, "selector") \/ Contains(error_msg, "element")
    THEN "element_not_found"
    ELSE IF Contains(error_msg, "network") THEN "network_issue"
    ELSE IF Contains(error_msg, "assertion") THEN "assertion_failure"
    ELSE "other"

_analyze_failure_patterns(history) ==
    LET details == DetailsOf(LastN(history, 10))
        IsFailed(test) == "status" \in DOMAIN test /\ test.status = "failed"
        failed == SelectSeq(details, IsFailed)
        counted == [i \in DOMAIN failed |->
                       FailureCategory(Lower(Get(failed[i], "error", "")))]
        categories == FirstOccurrences(counted)
    IN IF counted # <<>>
       THEN <<Insight("reliability", "Common Failure Pattern Detected", "medium",
                      Frac(8, 10),
                      [failure_patterns |->
                           [k \in DOMAIN categories |->
                               [type |-> categories[k],
                                count |-> Occurrences(counted, categories[k])]],
                       top_failure |-> [type |-> MostCommon(counted),
                                        count |-> Occurrences(counted,
                                                              MostCommon(counted))]])>>
       ELSE <<>>

\* What the insight request to the collaborator can end in
InsightOutcomes ==
    { [ok |-> FALSE],
      [ok |-> TRUE,
       result |-> [insights |-> <<>>, recommendations |-> <<>>, coverage_score |-> 0]],
      [ok |-> TRUE,
       result |-> [insights |->
                      <<[title |-> "Checkout is under-tested", severity |-> "critical",
                         confidence |-> Frac(6, 10)],
                        [description |-> "Login failures cluster on one browser"]>>]],
      [ok |-> TRUE,
       result |-> [insights |->
                      <<[title |-> "Retries hide failures", severity |-> "info",
                         confidence |-> Frac(95, 100)]>>]] }

_get_ai_generated_insights(outcome) ==
    IF ~outcome.ok THEN <<>>
    ELSE LET given == Get(outcome.result, "insights", <<>>) IN
         [i \in DOMAIN given |->
             Insight("ai_analysis",
                     Get(given[i], "title", "AI-Generated Insight"),
                     Get(given[i], "severity", "medium"),
                     Get(given[i], "confidence", Frac(7, 10)),
                     Get(given[i], "data", <<>>))]

_severity_score(severity) ==
    CASE severity = "critical" -> 4
      [] severity = "high" -> 3
      [] severity = "medium" -> 2
      [] severity = "low" -> 1
      [] OTHER -> 1

\* (score(a), -a.confidence) > (score(b), -b.confidence), compared as tuples
SortKeyGreater(a, b) ==
    \/ _severity_score(a.severity) > _severity_score(b.severity)
    \/ /\ _severity_score(a.severity) = _severity_score(b.severity)
       /\ FracLess(Neg(b.confidence), Neg(a.confidence))

\* insights.sort(key=lambda x: (score, -x.confidence), reverse=True)
SortedInsights(insights) ==
    SortedReverse(insights,
                  [i \in DOMAIN insights |-> [j \in DOMAIN insights |->
                      SortKeyGreater(insights[i], insights[j])]])

LocalInsights(history) ==
    _analyze_pass_rate_trends(history)
    \o _analyze_performance_trends(history)
    \o _analyze_flaky_tests(history)
    \o _analyze_test_coverage(history)
    \o _analyze_failure_patterns(history)

(***************************************************************************)
(* The analytics a dashboard may find in its data directory when it is     *)
(* constructed (_load_analytics_data): the history and the insights of     *)
(* earlier sessions.                                                       *)
(***************************************************************************)
Earlier(runs) == [i \in DOMAIN runs |-> Standardized(runs[i], 0)]

\* 21 runs: only the oldest one, which the analyses of the last 20 runs do not
\* see, has a failure of test_login
LongHistory ==
    <<RunFailing>> \o [i \in 1..4 |-> RunHealthy] \o [i \in 1..16 |-> RunBare]

\* 18 runs: eight failing ones that the analyses of the last 10 runs do not see
OldFailures == [i \in 1..8 |-> RunFailing] \o [i \in 1..10 |-> RunBare]

\* three runs with the pass rates 40%, 45% and 42%
PassRateExample ==
    <<[total |-> 100, passed |-> 40, failed |-> 60],
      [total |-> 100, passed |-> 45, failed |-> 55],
      [total |-> 100, passed |-> 42, failed |-> 58]>>

LoadedAnalytics ==
    { [test_history |-> <<>>, ai_insights |-> <<>>],
      [test_history |-> Earlier(<<RunHealthy, RunFailing, RunFailing>>),
       ai_insights |-> <<Insight("ai_analysis", "Retries hide failures", "info",
                                 Frac(95, 100), <<>>)>>],
      [test_history |-> Earlier(<<RunHealthy, RunHealthy, RunFailing,
                                  RunHealthy, RunHealthy>>),
       ai_insights |-> <<>>],
      [test_history |-> Earlier(LongHistory), ai_insights |-> <<>>],
      [test_history |-> Earlier(OldFailures), ai_insights |-> <<>>],
      [test_history |-> Earlier(<<RunBare, RunBare, RunBare>>), ai_insights |-> <<>>],
      [test_history |-> Earlier(PassRateExample), ai_insights |-> <<>>],
      [test_history |-> Earlier(<<RunWide>>), ai_insights |-> <<>>] }

InitDashboard ==
    /\ \E stored \in LoadedAnalytics :
          /\ test_history = stored.test_history
          /\ ai_insights = stored.ai_insights
    /\ performance_trends = <<>>
    /\ dash_disk = [test_history |-> test_history, ai_insights |-> ai_insights]
    /\ dash_pc = "idle"
    /\ dg = NoLocals
    /\ dash_ret = [op |-> "none"]
    /\ history0 = test_history

\* _save_analytics_data: both files are rewritten; a failure is logged and swallowed
_save_analytics_data(history, insights, save_ok) ==
    dash_disk' = IF save_ok THEN [test_history |-> history, ai_insights |-> insights]
                 ELSE dash_disk

(***************************************************************************)
(* record_test_run(test_results).  It is synchronous, so it runs while the *)
(* dashboard is idle or while generate_comprehensive_insights is suspended *)
(* in its collaborator call.                                               *)
(***************************************************************************)
record_test_run(test_results, save_ok) ==
    /\ Len(test_history) < Len(history0) + MaxRuns
    /\ LET standardized_result == Standardized(test_results, clock) IN
       /\ test_history' = Append(test_history, standardized_result)
       /\ performance_trends' =
              _update_performance_trends(performance_trends, standardized_result)
    /\ _save_analytics_data(test_history', ai_insights, save_ok)
    /\ dash_ret' = [op |-> "record_run"]
    /\ UNCHANGED <<ai_insights, dash_pc, dg, history0, engine, pure>>

(***************************************************************************)
(* generate_comprehensive_insights, up to its early return or to the await *)
(* of the collaborator in _get_ai_generated_insights                       *)
(***************************************************************************)
generate_comprehensive_insights ==
    /\ dash_pc = "idle"
    /\ IF test_history = <<>>
       THEN /\ dash_ret' = [op |-> "insights", insights |-> <<>>, generated |-> <<>>,
                            history |-> test_history]
            /\ UNCHANGED <<dash_pc, dg>>
       ELSE /\ dg' = [op |-> "generate", insights |-> LocalInsights(test_history),
                      history |-> test_history]
            /\ dash_pc' = "await_insights"
            /\ UNCHANGED dash_ret
    /\ UNCHANGED <<test_history, performance_trends, ai_insights, dash_disk, history0,
                   engine, pure>>

(***************************************************************************)
(* The collaborator call ends; the insights are ranked, stored and saved   *)
(***************************************************************************)
\* an answer of the collaborator whose insight has null for its confidence
NullConfidence ==
    [ok |-> TRUE,
     result |-> [insights |-> <<[title |-> "Selectors are brittle", severity |-> "high",
                                 confidence |-> None]>>]]

\* whether -x.confidence is defined: it is for a number and a TypeError for null
Negatable(confidence) == DOMAIN confidence = {"num", "den"}

\* whether the key function of insights.sort raises; the keys are computed
\* before any element is moved, so the list is then left as it was
SortRaises(insights) == \E i \in DOMAIN insights : ~Negatable(insights[i].confidence)

generate_resume(outcome, save_ok) ==
    /\ dash_pc = "await_insights"
    /\ LET generated == dg.insights \o _get_ai_generated_insights(outcome) IN
       IF SortRaises(generated)
       THEN /\ dash_ret' = [op |-> "insights", insights |-> generated,
                            generated |-> generated, history |-> dg.history]
            /\ UNCHANGED <<ai_insights, dash_disk>>
       ELSE LET insights == SortedInsights(generated) IN
            /\ ai_insights' = insights
            /\ _save_analytics_data(test_history, insights, save_ok)
            /\ dash_ret' = [op |-> "insights", insights |-> insights,
                            generated |-> generated, history |-> dg.history]
    /\ dash_pc' = "idle"
    /\ dg' = NoLocals
    /\ UNCHANGED <<test_history, performance_trends, history0, engine, pure>>

(***************************************************************************)
(* The orchestrator's adaptive-learning phase: every failed per-test entry *)
(* of the run results is handed to record_test_failure as it is; the phase *)
(* then calls analyze_patterns_and_create_rules and, if the configuration  *)
(* enables it, apply_adaptive_improvements, which are the actions above.   *)
(***************************************************************************)
\* record_test_failure calls made so far: each adds 1 to the frequencies
RecordsMade ==
    SumFrequency(failure_patterns, [i \in DOMAIN failure_patterns |-> i])
    - SumFrequency(loaded, [i \in DOMAIN loaded |-> i])

\* the entries the loop hands over
FailedTests(test_results) ==
    SelectSeq(Get(test_results, "tests", <<>>),
              LAMBDA test : Get(test, "status", None) = "failed")

\* the store after record_test_failure(test) for every entry, in order
RECURSIVE RecordedAll(_, _, _)
RecordedAll(patterns, tests, now) ==
    IF tests = <<>> THEN patterns
    ELSE LET failure_pattern == _extract_failure_pattern(Head(tests), now) IN
         RecordedAll(IF failure_pattern # None
                     THEN StoreAfterCall(patterns, failure_pattern[1], now, TRUE)
                     ELSE patterns,
                     Tail(tests), now)

_phase_adaptive_learning(test_results) ==
    /\ pc = "idle"
    /\ RecordsMade < MaxRecords
    /\ failure_patterns' = RecordedAll(failure_patterns, FailedTests(test_results), clock)
    /\ IF FailedTests(test_results) # <<>>
       THEN _save_adaptive_data(failure_patterns', adaptive_rules, TRUE)
       ELSE UNCHANGED disk
    /\ pc' = "phase_recorded"
    /\ ret' = [op |-> "phase", tests |-> FailedTests(test_results)]
    /\ UNCHANGED <<adaptive_rules, clock, file, backup, an, ap, io_log, io_failed,
                   file0, loaded, recorded, pure, dashboard>>

Init == InitEngine /\ InitPure /\ InitDashboard

\* an engine without stored patterns and rules
QuietEngine ==
    /\ InitEngine
    /\ failure_patterns = <<>>
    /\ adaptive_rules = <<>>
    /\ file = "button.click()\n"

\* a dashboard without history
QuietDashboard == InitDashboard /\ test_history = <<>>

Next ==
    \/ Tick
    \/ \E test_result \in TestResults, save_ok \in BOOLEAN :
          record_test_failure(test_result, save_ok)
    \/ \E save_ok \in BOOLEAN : analyze_patterns_and_create_rules(save_ok)
    \/ \E outcome \in CollaboratorOutcomes, save_ok \in BOOLEAN :
          analyze_resume(outcome, save_ok)
    \/ \E read_ok \in BOOLEAN : apply_adaptive_improvements(read_ok)
    \/ \E outcome \in WriteOutcomes : apply_write_backup(outcome)
    \/ \E outcome \in WriteOutcomes : apply_write_file(outcome)
    \/ \E test_results \in TestRuns, save_ok \in BOOLEAN :
          record_test_run(test_results, save_ok)
    \/ generate_comprehensive_insights
    \/ \E outcome \in InsightOutcomes \cup {NullConfidence}, save_ok \in BOOLEAN :
          generate_resume(outcome, save_ok)
    \/ \E test_results \in TestRuns : _phase_adaptive_learning(test_results)
    \/ \E outcome \in LoadOutcomes : AdaptiveTestingEngine(outcome)

Spec == Init /\ [][Next]_vars

(***************************************************************************)
(* A learning session: failures are recorded and rules synthesized within  *)
(* one second of the clock; no rule was loaded, no test file is touched    *)
(* and every save succeeds.                                                *)
(***************************************************************************)
InitLearning ==
    /\ InitEngine
    /\ adaptive_rules = <<>>
    /\ file = "button.click()\n"
    /\ InitPure
    /\ QuietDashboard

NextLearning ==
    \/ \E test_result \in TestResults : record_test_failure(test_result, TRUE)
    \/ analyze_patterns_and_create_rules(TRUE)
    \/ \E outcome \in CollaboratorOutcomes : analyze_resume(outcome, TRUE)

SpecLearning == InitLearning /\ [][NextLearning]_vars

(***************************************************************************)
(* A recording session: failures are recorded while the clock advances and *)
(* the data directory may refuse a save.                                   *)
(***************************************************************************)
InitRecording ==
    /\ InitEngine
    /\ file = "button.click()\n"
    /\ InitPure
    /\ QuietDashboard

\* the records of the session: failures of one test and records that are none
RecordingResults == {RSearch, RSearch2, RNoLocator, RErrored, RPassed}

NextRecording ==
    \/ Tick
    \/ \E test_result \in RecordingResults, save_ok \in BOOLEAN :
          record_test_failure(test_result, save_ok)

SpecRecording == InitRecording /\ [][NextRecording]_vars

(***************************************************************************)
(* The life of an engine: failures are recorded, rules synthesized and     *)
(* applied to one test file while the clock advances; the engine has       *)
(* loaded a rule, and every read, write and save succeeds.                 *)
(***************************************************************************)
InitLifecycle ==
    /\ InitEngine
    /\ failure_patterns \in {<<>>, <<Stored(RSearch, 7), Stored(RLocator, 9)>>}
    /\ adaptive_rules # <<>>
    /\ file = "page.click(\"#buy\")\n"
    /\ InitPure
    /\ QuietDashboard

LifecycleResults == {RSearch, RAssertion}

NextLifecycle ==
    \/ Tick
    \/ \E test_result \in LifecycleResults : record_test_failure(test_result, TRUE)
    \/ analyze_patterns_and_create_rules(TRUE)
    \/ \E outcome \in CollaboratorOutcomes : analyze_resume(outcome, TRUE)
    \/ apply_adaptive_improvements(TRUE)
    \/ apply_write_backup("ok")
    \/ apply_write_file("ok")

SpecLifecycle == InitLifecycle /\ [][NextLifecycle]_vars

(***************************************************************************)
(* An applying session: rules are synthesized from the loaded store and    *)
(* applied to the test file within one second of the clock; no further     *)
(* failure is recorded and every save succeeds.                            *)
(***************************************************************************)
NextApplying ==
    \/ analyze_patterns_and_create_rules(TRUE)
    \/ \E outcome \in CollaboratorOutcomes : analyze_resume(outcome, TRUE)
    \/ \E read_ok \in BOOLEAN : apply_adaptive_improvements(read_ok)
    \/ \E outcome \in WriteOutcomes : apply_write_backup(outcome)
    \/ \E outcome \in WriteOutcomes : apply_write_file(outcome)

InitApplying == InitEngine /\ InitPure /\ QuietDashboard

SpecApplying == InitApplying /\ [][NextApplying]_vars

(***************************************************************************)
(* An improving session: rules are synthesized and applied to the test     *)
(* file while the clock advances; every read, write and save succeeds.     *)
(***************************************************************************)
NextImproving ==
    \/ Tick
    \/ analyze_patterns_and_create_rules(TRUE)
    \/ \E outcome \in CollaboratorOutcomes : analyze_resume(outcome, TRUE)
    \/ apply_adaptive_improvements(TRUE)
    \/ apply_write_backup("ok")
    \/ apply_write_file("ok")

SpecImproving == InitApplying /\ [][NextImproving]_vars

(***************************************************************************)
(* Learning phases of the orchestrator: the results of test runs are       *)
(* handed to the adaptive-learning phase while the clock advances.         *)
(***************************************************************************)
NextPhases ==
    \/ Tick
    \/ \E test_results \in TestRuns : _phase_adaptive_learning(test_results)
    \/ analyze_patterns_and_create_rules(TRUE)
    \/ \E outcome \in CollaboratorOutcomes : analyze_resume(outcome, TRUE)

SpecPhases == InitLearning /\ [][NextPhases]_vars

(***************************************************************************)
(* An interleaved session: failures of the tests are recorded while rule   *)
(* synthesis awaits the collaborator.  The store the engine loaded has an  *)
(* assertion pattern and, after it, a timing pattern of frequency 6.       *)
(***************************************************************************)
InitInterleaved ==
    /\ failure_patterns = <<Stored(RAssertion, 12), Stored(RSearch, 6)>>
    /\ adaptive_rules = <<>>
    /\ disk = [patterns |-> failure_patterns, rules |-> adaptive_rules]
    /\ clock = 0
    /\ file = "button.click()\n"
    /\ backup = None
    /\ pc = "idle"
    /\ an = NoLocals
    /\ ap = NoLocals
    /\ ret = [op |-> "none"]
    /\ io_log = <<>>
    /\ io_failed = FALSE
    /\ file0 = file
    /\ loaded = failure_patterns
    /\ recorded = [test_result \in TestResults |-> 0]
    /\ InitPure
    /\ QuietDashboard

\* the records of the session: failures of the loaded patterns and a new one
InterleavedResults == {RSearch, RCart, RAssertion}

NextInterleaved ==
    \/ \E test_result \in InterleavedResults : record_test_failure(test_result, TRUE)
    \/ analyze_patterns_and_create_rules(TRUE)
    \/ \E outcome \in CollaboratorOutcomes : analyze_resume(outcome, TRUE)

SpecInterleaved == InitInterleaved /\ [][NextInterleaved]_vars

(***************************************************************************)
(* Sessions over one data directory: failures are recorded while the clock *)
(* advances, and between records the process may end and a new engine be   *)
(* constructed; every save and every load succeeds.                        *)
(***************************************************************************)
NextRestarting ==
    \/ Tick
    \/ \E test_result \in RecordingResults : record_test_failure(test_result, TRUE)
    \/ AdaptiveTestingEngine("ok")

SpecRestarting == InitRecording /\ [][NextRestarting]_vars

(***************************************************************************)
(* A dashboard session: runs are recorded and insights generated within    *)
(* one second of the clock; the engine is left alone.                      *)
(***************************************************************************)
InitInsights == QuietEngine /\ InitPure /\ InitDashboard

NextInsights ==
    \/ \E test_results \in TestRuns, save_ok \in BOOLEAN :
          record_test_run(test_results, save_ok)
    \/ generate_comprehensive_insights
    \/ \E outcome \in InsightOutcomes, save_ok \in BOOLEAN :
          generate_resume(outcome, save_ok)

SpecInsights == InitInsights /\ [][NextInsights]_vars

(***************************************************************************)
(* The same session with a data directory that takes every save: what the  *)
(* sub-analyses make of the histories.                                     *)
(***************************************************************************)
NextAnalyses ==
    \/ \E test_results \in TestRuns : record_test_run(test_results, TRUE)
    \/ generate_comprehensive_insights
    \/ \E outcome \in InsightOutcomes : generate_resume(outcome, TRUE)

SpecAnalyses == InitInsights /\ [][NextAnalyses]_vars

(***************************************************************************)
(* The same session with a collaborator whose answers may be malformed     *)
(***************************************************************************)
NextReplacing ==
    \/ \E test_results \in TestRuns : record_test_run(test_results, TRUE)
    \/ generate_comprehensive_insights
    \/ \E outcome \in InsightOutcomes \cup {NullConfidence} :
          generate_resume(outcome, TRUE)

SpecReplacing == InitInsights /\ [][NextReplacing]_vars

(***************************************************************************)
(* The confidence of a kind-group, studied on its own: a group of          *)
(* qualifying timing patterns is handed to _create_rule_for_pattern_group. *)
(***************************************************************************)
\* records of distinct identities that classify as timing_issue
TimingMembers == <<RSearch, RCart, RNotFound>>

\* the kind-groups analyze_patterns_and_create_rules can form from them: every
\* member has a frequency of at least min_pattern_frequency
ConfidenceGroups ==
    UNION { { [k \in 1..n |-> Stored(TimingMembers[k], f[k])] :
                f \in [1..n -> min_pattern_frequency..MaxFrequency] } :
            n \in 1..MaxGroup }

InitConfidence ==
    /\ QuietEngine
    /\ QuietDashboard
    /\ cf_group \in ConfidenceGroups
    /\ cf_rule = None
    /\ cl_message = ""
    /\ cl_kind = None

create_rule_for_group ==
    /\ cf_rule = None
    /\ cf_rule' = Some(_create_rule_for_pattern_group("timing_issue", cf_group, <<>>, clock))
    /\ UNCHANGED <<engine, cf_group, cl_message, cl_kind, dashboard>>

NextConfidence == create_rule_for_group

SpecConfidence == InitConfidence /\ [][NextConfidence]_vars

(***************************************************************************)
(* The classification of an error message, studied on its own: a message   *)
(* is handed to _classify_failure.                                         *)
(***************************************************************************)
\* the words of the classification table, kind by kind in the order of the tests
TableWords ==
    <<"timeout", "wait", "element not found",
      "selector", "locator", "element",
      "network", "connection", "request",
      "assertion", "expected", "actual",
      "permission", "access", "forbidden",
      "data", "invalid", "null">>

UpperChar(c) ==
    LET at == {i \in 1..Len(LowerAlpha) : CharAt(LowerAlpha, i) = c} IN
    IF at = {} THEN c ELSE CharAt(UpperAlpha, CHOOSE i \in at : TRUE)

\* a text in capital letters
RECURSIVE Upper(_)
Upper(s) ==
    IF Len(s) = 0 THEN ""
    ELSE IF Len(s) = 1 THEN UpperChar(s)
    ELSE Upper(SubSeq(s, 1, Len(s) \div 2)) \o Upper(SubSeq(s, Len(s) \div 2 + 1, Len(s)))

\* a word as it is, in capital letters, and with a capital first letter
Cased(w) == {w, Upper(w), Upper(SubSeq(w, 1, 1)) \o SubSeq(w, 2, Len(w))}

\* error messages: without a word of the table, with one word, and with two
\* words in either order, in several letter cases
Messages ==
    {"", "Something broke", "TypeError: x is undefined"}
    \cup UNION {Cased(w) : w \in Range(TableWords)}
    \cup UNION {{a \o " after " \o b : a \in Cased(w)} :
                w \in Range(TableWords), b \in Range(TableWords)}

InitClassify ==
    /\ QuietEngine
    /\ QuietDashboard
    /\ cf_group = <<>>
    /\ cf_rule = None
    /\ cl_message \in Messages
    /\ cl_kind = None

classify_failure ==
    /\ cl_kind = None
    /\ cl_kind' = Some(_classify_failure(cl_message))
    /\ UNCHANGED <<engine, cf_group, cf_rule, cl_message, dashboard>>

NextClassify == classify_failure

SpecClassify == InitClassify /\ [][NextClassify]_vars

(***************************************************************************)
(* Properties of the pattern store                                         *)
(***************************************************************************)
\* the pattern a failed record is extracted to
PatternOf(test_result) == ExtractedPatterns[test_result][1]

Failed(test_result) == ExtractedPatterns[test_result] # None

Holds(patterns, p) == \E i \in DOMAIN patterns : SameIdentity(patterns[i], p)

\* C1: starting from an empty pattern store, in every state reached by
\* record_test_failure calls no two patterns of the store share the identity
\* (test_name, failure_type, element_selector).
C1_UniqueIdentity ==
    loaded = <<>> =>
        \A i, j \in DOMAIN failure_patterns :
            i # j => ~SameIdentity(failure_patterns[i], failure_patterns[j])

\* C1 witness: from the empty store, a repeat was merged while another identity
\* got a pattern of its own.
C1_Witness ==
    /\ loaded = <<>>
    /\ Len(failure_patterns) >= 2
    /\ \E i \in DOMAIN failure_patterns : failure_patterns[i].frequency >= 2

\* the number of failed records of the identity of p handed to record_test_failure
RecordedOf(p) ==
    SumOver(recorded, {t \in TestResults : Failed(t) /\ SameIdentity(PatternOf(t), p)})

\* C2: for every identity the store did not hold at first and every n >= 1, after
\* n failed records of that identity were recorded, interleaved with any other
\* records, the store holds exactly one pattern of that identity and its
\* frequency is n.
C2_FrequencyCountsOccurrences ==
    \A t \in TestResults :
        (Failed(t) /\ ~Holds(loaded, PatternOf(t)) /\ RecordedOf(PatternOf(t)) >= 1) =>
            LET hits == {i \in DOMAIN failure_patterns :
                            SameIdentity(failure_patterns[i], PatternOf(t))}
            IN /\ Cardinality(hits) = 1
               /\ \A i \in hits : failure_patterns[i].frequency = RecordedOf(PatternOf(t))

\* C2 witness: one identity recorded twice through two different records, with a
\* record of another identity in between or around them.
C2_Witness ==
    /\ ~Holds(loaded, PatternOf(RSearch))
    /\ recorded[RSearch] = 1
    /\ recorded[RSearch2] = 1
    /\ recorded[RCart] = 1
    /\ \E i \in DOMAIN failure_patterns :
          /\ SameIdentity(failure_patterns[i], PatternOf(RSearch))
          /\ failure_patterns[i].frequency = 2

(***************************************************************************)
(* Properties of rule synthesis                                            *)
(***************************************************************************)
\* C3: after the timing failure "Timeout waiting for selector '#search-results'"
\* of one test was recorded three times into an empty store, a following
\* analyze_patterns_and_create_rules call returns exactly one rule, whose
\* suggested fix names #search-results.
C3_ThreeTimeoutsYieldOneRule ==
    ( /\ loaded = <<>>
      /\ recorded = [t \in TestResults |-> IF t = RSearch THEN 3 ELSE 0]
      /\ ret.op = "analyze"
      /\ ret.before = <<>> )
    => /\ Len(ret.new_rules) = 1
       /\ Contains(ret.new_rules[1].suggested_fix, "#search-results")

RECURSIVE QualifyingOf(_)
\* the rules of a creation log whose confidence reaches the threshold, in order
QualifyingOf(created) ==
    IF created = <<>> THEN <<>>
    ELSE (IF FracLeq(confidence_threshold, Head(created).rule.confidence)
          THEN <<Head(created).rule>> ELSE <<>>)
         \o QualifyingOf(Tail(created))

\* C4: analyze_patterns_and_create_rules neither returns nor appends a rule whose
\* confidence is below 0.7: the returned rules are exactly the created rules that
\* reach the threshold, the rule list grows by exactly them, and a group below
\* the threshold adds nothing.
C4_NoRuleBelowThreshold ==
    /\ \A i \in DOMAIN adaptive_rules :
          FracLeq(confidence_threshold, adaptive_rules[i].confidence)
    /\ ret.op = "analyze" =>
          /\ \A i \in DOMAIN ret.new_rules :
                FracLeq(confidence_threshold, ret.new_rules[i].confidence)
          /\ ret.new_rules = QualifyingOf(ret.created)
          /\ pc = "idle" => adaptive_rules = ret.before \o ret.new_rules

\* C4 witness: a call that created a rule below the threshold and one above it.
C4_Witness ==
    /\ ret.op = "analyze"
    /\ pc = "idle"
    /\ \E i \in DOMAIN ret.created :
          ~FracLeq(confidence_threshold, ret.created[i].rule.confidence)
    /\ \E i \in DOMAIN ret.created :
          FracLeq(confidence_threshold, ret.created[i].rule.confidence)
    /\ Len(ret.new_rules) = Len(ret.created) - 1

\* total frequency and average frequency of a kind-group
TotalFrequency(group) == SumFrequency(group, [i \in DOMAIN group |-> i])

AverageFrequency(group) == Frac(TotalFrequency(group), Len(group))

\* C5: the confidence of a kind-group is min(average frequency / 10, 1): it lies
\* in [0, 1], is 1 whenever the average frequency is at least 10, is the tenth of
\* the average below that, and is no smaller than the confidence of any group of
\* smaller or equal average frequency.
C5_ConfidenceFormula ==
    cf_rule # None =>
        LET confidence == cf_rule[1].confidence
            total == TotalFrequency(cf_group)
            n == Len(cf_group)
        IN /\ FracLeq(Frac(0, 1), confidence)
           /\ FracLeq(confidence, One)
           /\ total >= 10 * n => FracEq(confidence, One)
           /\ total < 10 * n => FracEq(confidence, Frac(total, 10 * n))
           /\ \A other \in ConfidenceGroups :
                 FracLeq(AverageFrequency(other), AverageFrequency(cf_group)) =>
                     FracLeq(_create_rule_for_pattern_group(
                                 "timing_issue", other, <<>>, clock).confidence,
                             confidence)

\* C5 witness: a group of two patterns whose average frequency lies strictly
\* between the qualifying minimum and the saturation point.
C5_Witness ==
    /\ cf_rule # None
    /\ Len(cf_group) = 2
    /\ TotalFrequency(cf_group) = 15
    /\ FracEq(cf_rule[1].confidence, Frac(3, 4))

(***************************************************************************)
(* Properties of rule application                                          *)
(***************************************************************************)
\* C6: rule application is idempotent: an apply_adaptive_improvements call made
\* on the output of a completed call, with the same rules, reports no rule as
\* applied, so it never gets to write a backup or the file.
C6_SecondApplicationAppliesNothing ==
    ~( /\ ret.op = "apply"
       /\ ~io_failed
       /\ pc \in {"apply_backup", "apply_write"}
       /\ ap.improvements_applied # <<>> )

\* C7: when the timing_issue rule alone is applied to text with click
\* invocations and no wait, the result has one injected wait per click
\* invocation, and taking the injected waits out gives the original text back.
C7_OneWaitPerClick ==
    ( /\ pc = "apply_backup"
      /\ Len(ap.improvements_applied) = 1
      /\ ap.improvements_applied[1].pattern = "timing_issue" )
    => /\ Count(ap.test_content, "page.wait_for_selector(")
            = Count(ap.original_content, "click(")
       /\ Replace(ap.test_content, WaitInjection, "page.click(") = ap.original_content

WritesOf(log, path) == {k \in DOMAIN log : log[k].op = "write" /\ log[k].path = path}

\* C8: in an apply_adaptive_improvements call with a matching rule the backup is
\* written before the file: when the call gets to overwrite the file, the backup
\* holds the content the call read, which the file still has; every write of the
\* file follows a completed backup write of that content; a call that has
\* returned with a matching rule has written the backup; and a call in which no
\* rule matched writes neither the backup nor the file.
C8_BackupBeforeOverwrite ==
    /\ pc = "apply_write" =>
          /\ backup = Some(ap.original_content)
          /\ file = ap.original_content
    /\ \A k \in WritesOf(io_log, "file") :
          /\ io_log[1] = IoEvent("read", "file", "ok", io_log[1].content)
          /\ \E j \in 2..(k - 1) :
                io_log[j] = IoEvent("write", "backup", "ok", io_log[1].content)
    /\ (pc = "idle" /\ ret.op = "apply" /\ ret.improvements_applied # <<>>) =>
          WritesOf(io_log, "backup") # {}
    /\ (pc = "idle" /\ ret.op = "apply" /\ ret.improvements_applied = <<>>) =>
          WritesOf(io_log, "backup") \cup WritesOf(io_log, "file") = {}

\* C8 witness: a call has written the backup and then the changed text.
C8_Witness ==
    /\ pc = "idle"
    /\ ret.op = "apply"
    /\ ret.improvements_applied # <<>>
    /\ ~io_failed
    /\ file # file0
    /\ backup = Some(file0)
    /\ WritesOf(io_log, "file") = {3}

\* C9: after any apply_adaptive_improvements calls on the file, with rules added
\* between the calls, the backup holds the content the file had before its first
\* modification.
C9_BackupHoldsOriginal ==
    (backup # None /\ ~io_failed) => backup = Some(file0)

(***************************************************************************)
(* Properties of the insight ranking                                       *)
(***************************************************************************)
SameRanking(a, b) ==
    /\ _severity_score(a.severity) = _severity_score(b.severity)
    /\ FracEq(a.confidence, b.confidence)

\* C10: the sequence generate_comprehensive_insights returns is ordered by
\* severity rank descending (critical 4, high 3, medium 2, low 1) and, among
\* insights of equal severity, by confidence descending; insights equal in both
\* keep their generation order.
C10_RankedBySeverityThenConfidence ==
    dash_ret.op = "insights" =>
        LET returned == dash_ret.insights
            generated == dash_ret.generated
        IN /\ \A i, j \in DOMAIN returned :
                 i < j =>
                    /\ _severity_score(returned[i].severity)
                         >= _severity_score(returned[j].severity)
                    /\ _severity_score(returned[i].severity)
                         = _severity_score(returned[j].severity)
                       => FracLeq(returned[j].confidence, returned[i].confidence)
           /\ \A x \in Range(generated) :
                 SelectSeq(returned, LAMBDA y : SameRanking(y, x))
                   = SelectSeq(generated, LAMBDA y : SameRanking(y, x))

(***************************************************************************)
(* Properties of the sub-analyses of the dashboard                         *)
(***************************************************************************)
\* the positions <<run, entry>> of the per-test entries of the runs that carry
\* test_name, with the given status or, for the status "", with any
EntriesOf(runs, test_name, status) ==
    UNION {{<<r, k>> : k \in {k \in DOMAIN runs[r].test_details :
                                 /\ runs[r].test_details[k].name = test_name
                                 /\ status \in {"", runs[r].test_details[k].status}}} :
           r \in DOMAIN runs}

\* the test names of the per-test entries of the runs
NamesIn(runs) ==
    UNION {{runs[r].test_details[k].name : k \in DOMAIN runs[r].test_details} :
           r \in DOMAIN runs}

\* the tests that are flaky over the last 20 runs of a history
FlakyIn(history) ==
    LET window == LastN(history, 20)
        total(n) == Cardinality(EntriesOf(window, n, ""))
        passes(n) == Cardinality(EntriesOf(window, n, "passed"))
        fails(n) == Cardinality(EntriesOf(window, n, "failed"))
    IN {n \in NamesIn(window) :
           /\ total(n) >= 5
           /\ passes(n) >= 1
           /\ fails(n) >= 1
           /\ 5 * Min(passes(n), fails(n)) >= total(n)}

\* the insights of the given title among those a call generated
Emitted(generated, title) ==
    {i \in DOMAIN generated : generated[i].title = title}

\* C11: generate_comprehensive_insights counts a test as flaky exactly when,
\* over the last 20 runs of the history, it has at least 5 outcomes, at least
\* one pass and one fail, and min(passes, fails) / outcomes >= 0.2, the boundary
\* included; one flaky-test insight is emitted when some test is flaky, and none
\* otherwise.
C11_FlakyAtOneFifthOfOutcomes ==
    dash_ret.op = "insights" =>
        LET flaky == FlakyIn(dash_ret.history)
            emitted == Emitted(dash_ret.generated, "Flaky Tests Detected")
        IN /\ Cardinality(emitted) = IF flaky = {} THEN 0 ELSE 1
           /\ \A i \in emitted :
                 LET data == dash_ret.generated[i].data_points IN
                 /\ data.flaky_count = Cardinality(flaky)
                 /\ {data.top_flaky_tests[k].name : k \in DOMAIN data.top_flaky_tests}
                       \subseteq flaky
                 /\ Len(data.top_flaky_tests) = Min(5, Cardinality(flaky))

\* C11 witness: a test with 4 passes and 1 fail in 5 outcomes was flagged.
C11_Witness ==
    /\ dash_ret.op = "insights"
    /\ \E i \in Emitted(dash_ret.generated, "Flaky Tests Detected") :
          LET top == dash_ret.generated[i].data_points.top_flaky_tests IN
          \E k \in DOMAIN top :
              /\ top[k].name = "test_login"
              /\ FracEq(top[k].score, Frac(1, 5))
              /\ Cardinality(EntriesOf(LastN(dash_ret.history, 20), "test_login", "")) = 5

\* the pass rates of runs, as fractions of 1
PassRatesOf(runs) ==
    [i \in DOMAIN runs |-> Frac(runs[i].passed, Max(runs[i].total_tests, 1))]

\* the slope of the least-squares line through (0, values[1]), (1, values[2]),
\* ...: the covariance of index and value over the variance of the index
LeastSquaresSlope(values) ==
    LET n == Len(values)
        x_mean == Frac(n - 1, 2)
        y_mean == Mean(values)
        dx(i) == FracSub(Whole(i - 1), x_mean)
    IN FracDiv(FracSum([i \in 1..n |-> FracMul(dx(i), FracSub(values[i], y_mean))]),
               FracSum([i \in 1..n |-> FracMul(dx(i), dx(i))]))

\* C12: the pass-rate analysis of generate_comprehensive_insights emits nothing
\* for fewer than 3 runs; for 3 runs or more it emits exactly one "Low Pass
\* Rate" insight when the mean pass rate of the last 10 runs is below 70%, of
\* severity high below 50% and medium otherwise; else exactly one medium
\* "Declining Pass Rate Trend" insight when the least-squares slope of those
\* pass rates is below -0.1; else nothing.  The pass rates 40%, 45%, 42% give a
\* "Low Pass Rate" insight of severity high.
C12_PassRateInsight ==
    dash_ret.op = "insights" =>
        LET generated == dash_ret.generated
            low == Emitted(generated, "Low Pass Rate Detected")
            declining == Emitted(generated, "Declining Pass Rate Trend")
            pass_rates == PassRatesOf(LastN(dash_ret.history, 10))
            mean_percent == FracMul(Mean(pass_rates), Whole(100))
        IN IF Len(dash_ret.history) < 3
           THEN low = {} /\ declining = {}
           ELSE IF FracLess(mean_percent, Whole(70))
           THEN /\ Cardinality(low) = 1
                /\ declining = {}
                /\ \A i \in low :
                      generated[i].severity =
                          IF FracLess(mean_percent, Whole(50)) THEN "high" ELSE "medium"
           ELSE IF FracLess(LeastSquaresSlope(pass_rates), Frac(-1, 10))
           THEN /\ low = {}
                /\ Cardinality(declining) = 1
                /\ \A i \in declining : generated[i].severity = "medium"
           ELSE low = {} /\ declining = {}

\* C12 witness: three passing runs and a failing one, whose mean pass rate is
\* 82.5% and whose slope is -0.21, gave the declining-trend insight.
C12_Witness ==
    /\ dash_ret.op = "insights"
    /\ Len(dash_ret.history) = 4
    /\ FracEq(Mean(PassRatesOf(dash_ret.history)), Frac(825, 1000))
    /\ FracEq(LeastSquaresSlope(PassRatesOf(dash_ret.history)), Frac(-21, 100))
    /\ Emitted(dash_ret.generated, "Declining Pass Rate Trend") # {}

\* the components coverage is reported for, "other" apart
Components ==
    {"authentication", "product_catalog", "shopping_cart", "checkout", "order_management"}

\* the positions <<run, entry>> of the per-test entries of the runs
AllEntries(runs) ==
    UNION {{<<r, k>> : k \in DOMAIN runs[r].test_details} : r \in DOMAIN runs}

\* the components the coverage insights of a call flag as low
FlaggedIn(generated) ==
    UNION {Range(generated[i].data_points.low_coverage_components) :
           i \in Emitted(generated, "Low Test Coverage Areas")}

\* C13: over the last 5 runs, whenever they hold at least one test,
\* generate_comprehensive_insights flags every component among authentication,
\* product_catalog, shopping_cart, checkout and order_management whose share of
\* the tests is under 10%, and it never flags "other".
C13_LowCoverageFlagged ==
    dash_ret.op = "insights" =>
        LET window == LastN(dash_ret.history, 5)
            entries == AllEntries(window)
            count(c) == Cardinality({e \in entries :
                            Component(Lower(window[e[1]].test_details[e[2]].name)) = c})
            flagged == FlaggedIn(dash_ret.generated)
        IN /\ "other" \notin flagged
           /\ entries # {} =>
                 \A c \in Components :
                     100 * count(c) < 10 * Cardinality(entries) => c \in flagged

\* C21: the insights are replaced on every analysis run: after every
\* generate_comprehensive_insights call the stored insight list is the sequence
\* that call returned, also when it returned an empty sequence or an analysis
\* step failed, so no insight of an earlier run is left in it.
C21_InsightsReplaced ==
    dash_ret.op = "insights" => ai_insights = dash_ret.insights

(***************************************************************************)
(* Properties of the failure classification                                *)
(***************************************************************************)
\* the kinds of the classification table, in its order
KindOrder ==
    <<"timing_issue", "element_selector", "network_issue", "assertion_failure",
      "permission_issue", "data_issue">>

\* whether a message holds, in any letter case, one of the three words of the
\* k-th kind of the table
Mentions(message, k) ==
    \E j \in (3 * k - 2)..(3 * k) :
        \E i \in 1..Len(message) :
            /\ i + Len(TableWords[j]) - 1 <= Len(message)
            /\ \A d \in 1..Len(TableWords[j]) :
                  CharAt(message, i + d - 1)
                      \in {CharAt(TableWords[j], d), UpperChar(CharAt(TableWords[j], d))}

\* the first kind of the table a message mentions, "unknown" if it mentions none
FirstKind(message) ==
    LET hits == {k \in DOMAIN KindOrder : Mentions(message, k)} IN
    IF hits = {} THEN "unknown"
    ELSE KindOrder[CHOOSE k \in hits : \A other \in hits : k <= other]

\* C14: _classify_failure returns a kind for every message, "unknown" when no
\* word of the table occurs; the first kind of the table with a word in the
\* message wins, the words matched in any letter case, so the same message in
\* another letter case gets the same kind; and a message holding "timeout" or
\* "element not found" is a timing_issue whatever else it holds.
C14_FirstTableEntryWins ==
    cl_kind # None =>
        /\ cl_kind[1] \in Range(KindOrder) \cup {"unknown"}
        /\ cl_kind[1] = FirstKind(cl_message)
        /\ _classify_failure(Upper(cl_message)) = cl_kind[1]
        /\ _classify_failure(Lower(cl_message)) = cl_kind[1]
        /\ (Contains(Lower(cl_message), "timeout")
              \/ Contains(Lower(cl_message), "element not found"))
             => cl_kind[1] = "timing_issue"

\* C14 witness: a message in capital letters that holds a selector word before
\* a timing word was classified as a timing issue.
C14_Witness ==
    /\ cl_message = "SELECTOR after timeout"
    /\ cl_kind = Some("timing_issue")

(***************************************************************************)
(* Further properties of the pattern store                                 *)
(***************************************************************************)
\* test, kind and extracted locator of a pattern
IdentityOf(p) == <<p.test_name, p.failure_type, p.element_selector>>

\* how often a pattern of the identity of p has occurred: the frequency the
\* loaded store had for it, and the records of it handed to record_test_failure
OccurredOf(p) ==
    SumOver([i \in DOMAIN loaded |-> loaded[i].frequency],
            {i \in DOMAIN loaded : IdentityOf(loaded[i]) = IdentityOf(p)})
    + SumOver(recorded, {t \in TestResults :
                            Failed(t) /\ IdentityOf(PatternOf(t)) = IdentityOf(p)})

\* C15: when failed records of one test and one failure kind with different
\* extracted locators, or one with a locator and one without, have been
\* recorded, the store holds a pattern of its own for each of them, and each
\* pattern's frequency counts the occurrences of its own identity only.
C15_LocatorsKeepPatternsApart ==
    \A t1, t2 \in TestResults :
        ( /\ Failed(t1) /\ Failed(t2)
          /\ PatternOf(t1).test_name = PatternOf(t2).test_name
          /\ PatternOf(t1).failure_type = PatternOf(t2).failure_type
          /\ PatternOf(t1).element_selector # PatternOf(t2).element_selector
          /\ recorded[t1] >= 1 /\ recorded[t2] >= 1 )
        => \E i, j \in DOMAIN failure_patterns :
              /\ i # j
              /\ IdentityOf(failure_patterns[i]) = IdentityOf(PatternOf(t1))
              /\ IdentityOf(failure_patterns[j]) = IdentityOf(PatternOf(t2))
              /\ failure_patterns[i].frequency = OccurredOf(PatternOf(t1))
              /\ failure_patterns[j].frequency = OccurredOf(PatternOf(t2))

\* C15 witness: into an empty store, a timeout of a test was recorded twice with
\* a locator and once without one.
C15_Witness ==
    /\ loaded = <<>>
    /\ recorded[RSearch] = 2
    /\ recorded[RNoLocator] = 1
    /\ Len(failure_patterns) = 2
    /\ failure_patterns[1].element_selector = Some("#search-results")
    /\ failure_patterns[1].frequency = 2
    /\ failure_patterns[2].element_selector = None
    /\ failure_patterns[2].frequency = 1

\* C16: a record_test_failure call with a record whose status is not "failed"
\* leaves the pattern store, with its frequencies and timestamps, and the rule
\* list as they were.
C16_NonFailureIsNoOp ==
    [][\A t \in TestResults :
          (t.status # "failed" /\ recorded'[t] = recorded[t] + 1)
          => /\ failure_patterns' = failure_patterns
             /\ adaptive_rules' = adaptive_rules]_vars

\* C16 witness: a record of status "error" was handed to an engine that holds
\* patterns and a rule, a second after it was constructed.
C16_Witness ==
    /\ recorded[RErrored] = 1
    /\ ret.op = "record"
    /\ clock = 1
    /\ failure_patterns = loaded
    /\ loaded # <<>>
    /\ adaptive_rules # <<>>

\* C17: a record_test_failure call returns to its caller also when the store
\* could not be saved, and the store in memory then holds the occurrence: for
\* every failed record handed over so far there is one pattern of its identity,
\* whose frequency counts all its occurrences.
C17_RecordedWhenSaveFails ==
    (ret.op = "record" /\ ret.save_failed) =>
        \A t \in TestResults :
            (t.status = "failed" /\ recorded[t] >= 1) =>
                LET hits == {i \in DOMAIN failure_patterns :
                                IdentityOf(failure_patterns[i]) = IdentityOf(PatternOf(t))}
                IN /\ Cardinality(hits) = 1
                   /\ \A i \in hits : failure_patterns[i].frequency = OccurredOf(PatternOf(t))

\* C17 witness: no save succeeded, and the store in memory has a new pattern
\* and a raised frequency that the data directory does not have.
C17_Witness ==
    /\ ret.op = "record"
    /\ ret.save_failed
    /\ loaded # <<>>
    /\ disk.patterns = loaded
    /\ Len(failure_patterns) = Len(loaded) + 1
    /\ \E i \in DOMAIN loaded : failure_patterns[i].frequency = loaded[i].frequency + 1

(***************************************************************************)
(* Further properties of rule synthesis                                    *)
(***************************************************************************)
\* the entries of a creation log, or the rules of a list, that are not of the
\* assertion_failure kind
OtherCreated(created) ==
    SelectSeq(created, LAMBDA c : c.failure_type # "assertion_failure")

OtherRules(rules) == SelectSeq(rules, LAMBDA r : r.pattern # "assertion_failure")

\* C18: a failure of the collaborator in the assertion_failure group does not
\* end rule synthesis.  While the call awaits the collaborator, the rules of all
\* other groups come out the same for a failing and for an answering
\* collaborator; and after a call whose collaborator failed, every kind-group
\* was given its rule, the assertion_failure rule carries the fallback
\* suggestion, and it was returned and appended when its confidence qualifies.
C18_CollaboratorFailureAbsorbed ==
    /\ pc = "await_collab" =>
          \A outcome \in CollaboratorOutcomes :
              /\ OtherCreated(Resumed(outcome).created)
                    = OtherCreated(Resumed([ok |-> FALSE]).created)
              /\ OtherRules(Resumed(outcome).new_rules)
                    = OtherRules(Resumed([ok |-> FALSE]).new_rules)
              /\ Len(Resumed(outcome).rules) = Len(Resumed([ok |-> FALSE]).rules)
    /\ (ret.op = "analyze" /\ ret.outcome = Some([ok |-> FALSE])) =>
          /\ Len(ret.created) = Len(ret.pattern_groups)
          /\ \A k \in DOMAIN ret.created :
                /\ ret.created[k].failure_type = ret.pattern_groups[k].failure_type
                /\ ret.created[k].failure_type = "assertion_failure" =>
                      /\ ret.created[k].rule.suggested_fix
                            = "Review assertion logic, expected values, and test data"
                      /\ FracLeq(confidence_threshold, ret.created[k].rule.confidence) =>
                            /\ ret.created[k].rule \in Range(ret.new_rules)
                            /\ pc = "idle" => ret.created[k].rule \in Range(adaptive_rules)

\* C18 witness: the collaborator failed, and the call returned the fallback rule
\* of the assertion_failure group and the rule of the group after it.
C18_Witness ==
    /\ ret.op = "analyze"
    /\ pc = "idle"
    /\ ret.outcome = Some([ok |-> FALSE])
    /\ Len(ret.new_rules) = 2
    /\ ret.new_rules[1].pattern = "assertion_failure"
    /\ ret.new_rules[1].suggested_fix
          = "Review assertion logic, expected values, and test data"
    /\ ret.new_rules[2].pattern = "network_issue"

(***************************************************************************)
(* Properties of the life of patterns and rules                            *)
(***************************************************************************)
\* C19: a pattern keeps the error message seen last: when record_test_failure
\* has recorded a failed record, the pattern of its identity carries the error
\* message of that record, also when the pattern existed with another message.
C19_LastSeenMessage ==
    [][\A t \in TestResults :
          (t.status = "failed" /\ recorded'[t] = recorded[t] + 1)
          => \A i \in DOMAIN failure_patterns' :
                IdentityOf(failure_patterns'[i]) = IdentityOf(PatternOf(t))
                => failure_patterns'[i].error_message = t.error_message]_vars

\* C20: whatever record_test_failure, analyze_patterns_and_create_rules and
\* apply_adaptive_improvements do, in whatever order: no pattern and no rule is
\* removed, every pattern has a frequency of at least 1 that never goes down,
\* and a rule keeps its confidence, its suggested fix and its creation time.
C20_NothingRemovedNothingRewritten ==
    /\ \A i \in DOMAIN failure_patterns : failure_patterns[i].frequency >= 1
    /\ [][/\ Len(failure_patterns') >= Len(failure_patterns)
          /\ \A i \in DOMAIN failure_patterns :
                /\ IdentityOf(failure_patterns'[i]) = IdentityOf(failure_patterns[i])
                /\ failure_patterns'[i].frequency >= failure_patterns[i].frequency
          /\ \A i \in DOMAIN failure_patterns' : failure_patterns'[i].frequency >= 1
          /\ Len(adaptive_rules') >= Len(adaptive_rules)
          /\ \A i \in DOMAIN adaptive_rules :
                /\ adaptive_rules'[i].rule_id = adaptive_rules[i].rule_id
                /\ adaptive_rules'[i].pattern = adaptive_rules[i].pattern
                /\ adaptive_rules'[i].confidence = adaptive_rules[i].confidence
                /\ adaptive_rules'[i].suggested_fix = adaptive_rules[i].suggested_fix
                /\ adaptive_rules'[i].created_at = adaptive_rules[i].created_at]_vars

\* C20 witness: a second after the engine was constructed, a loaded pattern has
\* recurred, a new pattern and new rules have been added, and the loaded rule
\* has been applied to the file.
C20_Witness ==
    /\ clock = 1
    /\ loaded # <<>>
    /\ Len(failure_patterns) > Len(loaded)
    /\ \E i \in DOMAIN loaded : failure_patterns[i].frequency > loaded[i].frequency
    /\ Len(adaptive_rules) >= 2
    /\ adaptive_rules[1].last_applied # None
    /\ adaptive_rules[2].created_at = 1
    /\ file # file0

(***************************************************************************)
(* Further properties of rule application                                  *)
(***************************************************************************)
\* the entry of improvements_applied for a rule
ReportOf(rule) ==
    [rule_id |-> rule.rule_id, pattern |-> rule.pattern, fix |-> rule.suggested_fix]

\* the kinds _apply_rule_to_content has a transform for
TransformedKinds == {"timing_issue", "element_selector", "network_issue"}

\* C22: in an apply_adaptive_improvements call, the rules whose last_applied
\* is set to the time of the call are exactly the rules reported in
\* improvements_applied, in the order of the rule list; they are of the kinds
\* timing_issue, element_selector or network_issue; every other rule keeps
\* its last_applied, in that call and in every other step; and the call
\* returns the entries its rule loop reported.
C22_LastAppliedIffReported ==
    [][/\ LET reported == IF pc = "idle" /\ pc' = "apply_backup"
                          THEN ap'.improvements_applied ELSE <<>>
          IN \E S \in SUBSET DOMAIN adaptive_rules :
                /\ reported = [k \in 1..Cardinality(S) |->
                                  ReportOf(adaptive_rules[SortedSeq(S)[k]])]
                /\ \A i \in S :
                      /\ adaptive_rules'[i].last_applied = Some(clock)
                      /\ adaptive_rules[i].pattern \in TransformedKinds
                /\ \A i \in DOMAIN adaptive_rules \ S :
                      adaptive_rules'[i].last_applied = adaptive_rules[i].last_applied
       /\ (pc \in {"apply_backup", "apply_write"} /\ pc' = "idle")
             => ret'.improvements_applied = ap.improvements_applied
       /\ (pc = "idle" /\ pc' = "idle" /\ ret'.op = "apply" /\ ret' # ret)
             => ret'.improvements_applied = <<>>]_vars

\* C22 witness: a call made a second after an earlier one reported the
\* network_issue rule alone: the timing_issue rule, which no longer matched,
\* kept the time of the earlier call, and the assertion_failure rule was never
\* applied.
C22_Witness ==
    /\ pc = "idle"
    /\ ret.op = "apply"
    /\ clock = 1
    /\ Len(adaptive_rules) = 3
    /\ ret.improvements_applied = <<ReportOf(adaptive_rules[3])>>
    /\ adaptive_rules[1].pattern = "timing_issue"
    /\ adaptive_rules[1].last_applied = Some(0)
    /\ adaptive_rules[2].pattern = "assertion_failure"
    /\ adaptive_rules[2].last_applied = None
    /\ adaptive_rules[3].pattern = "network_issue"
    /\ adaptive_rules[3].last_applied = Some(1)

(***************************************************************************)
(* Further properties of rule synthesis: what the rules are made from      *)
(***************************************************************************)
\* the patterns of a store that have occurred min_pattern_frequency times
Strong(patterns) == SelectSeq(patterns, LAMBDA p : p.frequency >= 3)

\* patterns of every input with a frequency below min_pattern_frequency
WeakPatterns ==
    {Stored(t, f) : t \in {r \in TestResults \cup EarlierResults : Failed(r)}, f \in 1..2}

OfKind(patterns, kind) == SelectSeq(patterns, LAMBDA p : p.failure_type = kind)

\* C23: patterns of a frequency below 3 have no influence on synthesis.  A
\* pattern of frequency 1 or 2 added to the store changes no kind-group; and
\* a call gives a rule to exactly the kinds that have a pattern of frequency 3
\* or more, with the confidence min(average frequency / 10, 1) of those
\* patterns alone and a suggested fix that names locators of those patterns
\* alone, so a kind without such a pattern gets no rule.
C23_WeakPatternsIgnored ==
    /\ \A w \in WeakPatterns :
          PatternGroups(Append(failure_patterns, w)) = PatternGroups(failure_patterns)
    /\ ret.op = "analyze" =>
          LET strong == Strong(failure_patterns)
              kinds == FirstOccurrences([i \in DOMAIN strong |-> strong[i].failure_type])
          IN /\ [k \in DOMAIN ret.created |-> ret.created[k].failure_type] = kinds
             /\ \A k \in DOMAIN ret.created :
                   LET group == OfKind(strong, kinds[k])
                       rule == ret.created[k].rule
                   IN /\ FracEq(rule.confidence,
                                MinOne(Frac(TotalFrequency(group), 10 * Len(group))))
                      /\ rule.pattern = "timing_issue" =>
                            rule.suggested_fix = _create_timing_fix_suggestion(group)
                      /\ rule.pattern = "element_selector" =>
                            \E order \in Perms(ProblemSelectors(group)) :
                                rule.suggested_fix
                                    = _create_selector_fix_suggestion(group, order)
             /\ \A i \in DOMAIN ret.new_rules :
                   OfKind(strong, ret.new_rules[i].pattern) # <<>>

\* C23 witness: a call on a store with two timing patterns of frequency 3 or
\* more and one of frequency 1, which made its timing rule from the two.
C23_Witness ==
    /\ ret.op = "analyze"
    /\ Len(OfKind(failure_patterns, "timing_issue")) = 3
    /\ Len(OfKind(Strong(failure_patterns), "timing_issue")) = 2
    /\ \E k \in DOMAIN ret.created :
          /\ ret.created[k].failure_type = "timing_issue"
          /\ ret.created[k].size = 2
          /\ FracEq(ret.created[k].rule.confidence, Frac(65, 100))

\* C24: an analyze_patterns_and_create_rules call appends to the rule list
\* exactly the rules it returns, in their order: when it has returned, the rule
\* list is the list the call found, every rule as it was and in its position,
\* followed by the returned rules; while it awaits the collaborator, by the
\* rules made so far.  The returned rules are of different kinds, and each has
\* the success rate 0 and no last-applied time.
C24_AppendsWhatItReturns ==
    /\ pc = "await_collab" => adaptive_rules = an.before \o an.new_rules
    /\ (ret.op = "analyze" /\ pc = "idle") =>
          /\ adaptive_rules = ret.before \o ret.new_rules
          /\ \A i, j \in DOMAIN ret.new_rules :
                i # j => ret.new_rules[i].pattern # ret.new_rules[j].pattern
          /\ \A i \in DOMAIN ret.new_rules :
                /\ ret.new_rules[i].success_rate = 0
                /\ ret.new_rules[i].last_applied = None

\* C24 witness: a call that found a rule which had been applied, and returned
\* two rules.
C24_Witness ==
    /\ ret.op = "analyze"
    /\ pc = "idle"
    /\ Len(ret.before) = 1
    /\ ret.before[1].last_applied # None
    /\ Len(ret.new_rules) = 2
    /\ Len(adaptive_rules) = 3

(***************************************************************************)
(* Properties of the orchestrator's adaptive-learning phase                *)
(***************************************************************************)
\* C25: when the adaptive-learning phase has handed the failed per-test
\* entries (name, status, duration, error) of a run to record_test_failure,
\* the store holds for each of them a pattern with the entry's test name and
\* the failure kind and locator of its error text, so entries of different
\* names or kinds of error have patterns of their own.
C25_EntriesKeepNameAndKind ==
    ret.op = "phase" =>
        \A k \in DOMAIN ret.tests :
            \E i \in DOMAIN failure_patterns :
                /\ failure_patterns[i].test_name = ret.tests[k].name
                /\ failure_patterns[i].failure_type
                      = _classify_failure(ret.tests[k].error)
                /\ failure_patterns[i].element_selector
                      = _extract_element_selector(ret.tests[k].error)

(***************************************************************************)
(* Properties of the rule list                                             *)
(***************************************************************************)
\* C26: rule ids identify rules: whatever analyze_patterns_and_create_rules
\* calls have been made, two of them within one second of the clock and over
\* an unchanged pattern store included, no two rules of the rule list have the
\* same rule_id.
C26_RuleIdsUnique ==
    \A i, j \in DOMAIN adaptive_rules :
        i # j => adaptive_rules[i].rule_id # adaptive_rules[j].rule_id

\* C27: a rule is reported as applied only if its transform changed the text:
\* when the rule loop of apply_adaptive_improvements has reported rules, so
\* that the backup and the file are about to be written, the text to write
\* differs from the text that was read.
C27_AppliedMeansChanged ==
    (pc = "apply_backup" /\ ap.improvements_applied # <<>>)
        => ap.test_content # ap.original_content

(***************************************************************************)
(* Properties of rule synthesis under cooperative scheduling               *)
(***************************************************************************)
\* the rules an analyze_patterns_and_create_rules call returns when it runs
\* on the store without interruption and its collaborator call ends in outcome
SynthesisOn(store, order, outcome, now) ==
    LET groups == PatternGroups(store)
        first == CreateRulesFrom(groups, 1, store, <<>>, <<>>, <<>>, order, now)
    IN IF first.i > Len(groups) THEN first.new_rules
       ELSE LET rule == NewRule(RuleId("assertion_failure", now), "assertion_failure",
                                _create_assertion_fix_suggestion(outcome),
                                GroupConfidence(Members(store, groups[first.i])), now)
                made == IF Qualifies(rule) THEN Append(first.new_rules, rule)
                        ELSE first.new_rules
            IN CreateRulesFrom(groups, first.i + 1, store, <<>>, made, <<>>,
                               order, now).new_rules

\* kind, confidence and suggested fix of the rules of a list
EssenceOf(rules) ==
    [i \in DOMAIN rules |->
        <<rules[i].pattern, rules[i].confidence, rules[i].suggested_fix>>]

\* C28: when record_test_failure calls run while a synthesis call is suspended
\* in the collaborator call of the assertion_failure group, the rules the call
\* returns have the kinds, confidences and suggested fixes of the rules it
\* returns when it runs without interruption on the store it found.
C28_SynthesisSeesStoreOfCallStart ==
    (ret.op = "analyze" /\ ret.outcome # None) =>
        \E order \in SelectorOrders(ret.store, PatternGroups(ret.store)) :
            EssenceOf(ret.new_rules)
                = EssenceOf(SynthesisOn(ret.store, order, ret.outcome[1], clock))

(***************************************************************************)
(* Properties of persistence                                               *)
(***************************************************************************)
\* C29: when no read, write or save fails, after every completed engine
\* operation (record_test_failure of a failed record,
\* analyze_patterns_and_create_rules, apply_adaptive_improvements) the
\* persisted rule collection is the rule list in memory, the last-applied
\* time of every rule included.
C29_RulesPersisted ==
    (pc = "idle" /\ ret.op \in {"record", "analyze", "apply"} /\ ~io_failed)
        => disk.rules = adaptive_rules

\* C30: persistence round-trips the pattern store.  When every save has
\* succeeded, an engine constructed over the data directory holds the patterns
\* and rules of the engine before it, with their frequencies; and a failure
\* recorded afterwards whose identity the store holds raises the frequency of
\* that pattern by one and adds no pattern, so no identity is held twice.
C30_StoreSurvivesRestart ==
    /\ \A i, j \in DOMAIN failure_patterns :
          i # j => IdentityOf(failure_patterns[i]) # IdentityOf(failure_patterns[j])
    /\ [][/\ ret'.op = "init" =>
                /\ failure_patterns' = failure_patterns
                /\ adaptive_rules' = adaptive_rules
                /\ loaded' = failure_patterns
          /\ \A t \in TestResults :
                ( /\ t.status = "failed"
                  /\ recorded'[t] = recorded[t] + 1
                  /\ Holds(failure_patterns, PatternOf(t)) )
                => /\ Len(failure_patterns') = Len(failure_patterns)
                   /\ \A i \in DOMAIN failure_patterns :
                         failure_patterns'[i].frequency
                           = failure_patterns[i].frequency
                             + (IF IdentityOf(failure_patterns[i]) = IdentityOf(PatternOf(t))
                                THEN 1 ELSE 0)]_vars

\* C30 witness: a timeout was recorded into an empty store, a new engine
\* loaded the pattern with its frequency of 1, and a second occurrence of
\* the identity, recorded a second later, raised the frequency to 2.
C30_Witness ==
    /\ Len(loaded) = 1
    /\ loaded[1].frequency = 1
    /\ IdentityOf(loaded[1]) = IdentityOf(PatternOf(RSearch))
    /\ recorded[RSearch] = 1
    /\ recorded[RSearch2] = 1
    /\ ret.op = "record"
    /\ Len(failure_patterns) = 1
    /\ failure_patterns[1].frequency = 2
    /\ failure_patterns[1].timestamp = 1
    /\ disk.patterns = failure_patterns
====
